---- MODULE Spec2Model ----
(***************************************************************************)
(* go-simplesync: one outbound tunnel (src/cmd/tunnel.go) of daemon A      *)
(* pushing A's tree to the inbound server with ping (src/unnamed/part_000) *)
(* of daemon B.  A also runs an inbound server of its own, which applies   *)
(* the DELETE requests of a third peer to A's tree and to A's copy of the  *)
(* process-wide table __deleteTimes.                                       *)
(***************************************************************************)
EXTENDS Integers, Sequences, FiniteSets, TLC

\* ------------------------------------------------------------------ bounds
MaxLocalOps == 1     \* changes to A's tree by its user or by A's inbound server
MaxConns    == 1     \* connections the tunnel dials

\* ------------------------------------------------------- program constants
REQ_TYPE_CREATE_FILE == 0
REQ_TYPE_CREATE_DIR  == 1
REQ_TYPE_UPDATE_PING == 2
REQ_TYPE_UPDATE      == 3
REQ_TYPE_DELETE      == 4
SALT_SIZE == 10
HASH_SIZE == 32

\* ------------------------------------------------------------- filesystem
\* A relative path is the tuple of its components; <<>> is the root.
Paths == { <<"sub">>, <<"sub", "b.txt">>, <<"old.txt">>, <<"new.txt">> }

\* ioutil.ReadDir returns the entries sorted by file name.
NameRank(n) == CASE n = "b.txt"   -> 1
                 [] n = "new.txt" -> 2
                 [] n = "old.txt" -> 3
                 [] n = "sub"     -> 4

\* The files the local user of A works on.
UserPaths == { <<"old.txt">>, <<"new.txt">> }

NoNode == [kind |-> "none", data |-> <<>>, mtime |-> 0]
FileNode(d, m) == [kind |-> "file", data |-> d, mtime |-> m]
DirNode(m) == [kind |-> "dir", data |-> <<>>, mtime |-> m]

EmptyTree == [p \in Paths |-> NoNode]

Parent(p) == SubSeq(p, 1, Len(p) - 1)
Last(p) == p[Len(p)]
IsPrefix(p, q) == Len(p) <= Len(q) /\ SubSeq(q, 1, Len(p)) = p

Exists(fs, p) == p = <<>> \/ (p \in Paths /\ fs[p].kind # "none")
IsDir(fs, p) == p = <<>> \/ (p \in Paths /\ fs[p].kind = "dir")
IsFile(fs, p) == p \in Paths /\ fs[p].kind = "file"

\* filepath.Clean on the components of a relative path: "." is dropped, ".."
\* takes back the component before it; the empty path cleans to ".".
RECURSIVE CleanParts(_, _)
CleanParts(p, acc) ==
  IF p = <<>> THEN acc
  ELSE IF Head(p) = "." THEN CleanParts(Tail(p), acc)
  ELSE IF Head(p) = ".." /\ acc # <<>> /\ acc[Len(acc)] # ".."
         THEN CleanParts(Tail(p), SubSeq(acc, 1, Len(acc) - 1))
  ELSE CleanParts(Tail(p), Append(acc, Head(p)))

Clean(p) == IF CleanParts(p, <<>>) = <<>> THEN <<".">> ELSE CleanParts(p, <<>>)

\* fqpath := s.Root + relPath, as the operating system resolves it: the node of
\* the tree the name leads to (<<>> is the root itself).
Fqpath(relPath) == CleanParts(relPath, <<>>)

\* os.RemoveAll: the path and everything beneath it.
RemoveAll(fs, p) == [q \in Paths |-> IF IsPrefix(p, q) THEN NoNode ELSE fs[q]]

\* os.MkdirAll: the directory and every missing parent, stamped with the clock.
MkdirAll(fs, p, t) ==
  [q \in Paths |-> IF IsPrefix(q, p) /\ fs[q].kind = "none" THEN DirNode(t) ELSE fs[q]]

\* os.Chtimes
Chtimes(fs, p, m) == [fs EXCEPT ![p].mtime = m]

\* ---------------------------------------------------------- ListItems
RECURSIVE SortByName(_)
SortByName(S) ==
  IF S = {} THEN <<>>
  ELSE LET p == CHOOSE x \in S : \A y \in S : NameRank(Last(x)) <= NameRank(Last(y))
       IN  <<p>> \o SortByName(S \ {p})

RECURSIVE Concat(_)
Concat(ss) == IF ss = <<>> THEN <<>> ELSE Head(ss) \o Concat(Tail(ss))

Children(fs, d) == { p \in Paths : Parent(p) = d /\ fs[p].kind # "none" }

\* ListItems(root, relPath) -> (fileList, dirList): the entries of one directory
\* in name order, then the lists of each sub-directory in turn.
RECURSIVE ListItems(_, _)
ListItems(fs, d) ==
  LET entries == SortByName(Children(fs, d))
      dirs    == SelectSeq(entries, LAMBDA p : fs[p].kind = "dir")
      files   == SelectSeq(entries, LAMBDA p : fs[p].kind # "dir")
      sub     == [i \in 1..Len(dirs) |-> ListItems(fs, dirs[i])]
  IN  [files |-> files \o Concat([i \in 1..Len(dirs) |-> sub[i].files]),
       dirs  |-> dirs  \o Concat([i \in 1..Len(dirs) |-> sub[i].dirs])]

\* ------------------------------------------------------- tombstone table
\* __deleteTimes: map[string]int64, here a function on the set of its keys.
NoTable == [p \in {} |-> 0]
TablePut(tab, p, t) == [q \in DOMAIN tab \cup {p} |-> IF q = p THEN t ELSE tab[q]]
TableDelete(tab, p) == [q \in DOMAIN tab \ {p} |-> tab[q]]

\* ------------------------------------------------------------ wire frames
\* Plaintext frames of the handshake (Connection.WriteFull).
Plain(s) == [kind |-> "plain", txt |-> s]

\* SHA256WithPredefinedSalt: salt || "::" || SHA256(salt || "::" || data).  The
\* digest is kept symbolic: it is decided by the salt and the data it covers.
SHA256WithPredefinedSalt(data, salt) ==
  [salt |-> salt, sep |-> "::", sum |-> <<salt, "::", data>>, len |-> SALT_SIZE + 2 + HASH_SIZE]

\* A credential frame: the bytes of a salted hash, or a frame of another size.
Cred(h) == [kind |-> "cred", hash |-> h, len |-> h.len]

\* Encrypted frames (EncryptedConnection.WriteEncryptedFull / WriteEncryptedStream).
\* FileInfoReq; fields a request does not set are zero.
Req(t, p, m, d) == [kind |-> "req", reqType |-> t, relPath |-> p, modTime |-> m, delTime |-> d]
\* FileInfoResp
Resp(ping, send) == [kind |-> "resp", pingOK |-> ping, sendFile |-> send]
\* A file body: the plaintext and whether the trailing MAC matches it.
Body(d) == [kind |-> "body", data |-> d, macOK |-> TRUE]

\* The plaintext bytes ReadEncryptedStream hands to its sink.  A request frame
\* read as a body yields its JSON text, kept as one marker byte and the type.
FrameBytes(m) == IF m.kind = "body" THEN m.data ELSE <<9, m.reqType>>

\* --------------------------------------------------- filesystem calls
\* os.Stat: "ok", "notexist" (os.IsNotExist), or "error" (a component of the
\* path is a file: ENOTDIR).
RECURSIVE Stat(_, _)
Stat(fs, p) ==
  IF Exists(fs, p) THEN "ok"
  ELSE IF p = <<>> THEN "ok"
  ELSE IF IsFile(fs, Parent(p)) \/ Stat(fs, Parent(p)) = "error" THEN "error"
  ELSE "notexist"

\* Creating or removing an entry stamps the directory that holds it.
TouchParent(fs, p, t) ==
  IF Parent(p) \in Paths /\ fs[Parent(p)].kind = "dir"
  THEN [fs EXCEPT ![Parent(p)].mtime = t] ELSE fs

\* ------------------------------------------------ responder: pure steps
\* Server.handleDelete with the mod-time check turned into "after".
HandleDeleteUnlessAfter(fs, tab, req, t) ==
  LET p  == Fqpath(req.relPath)
      st == Stat(fs, p)
  IN  IF st = "notexist" THEN [fs |-> fs, tab |-> tab, err |-> FALSE, what |-> "absent"]
      ELSE IF st = "error" THEN [fs |-> fs, tab |-> tab, err |-> TRUE, what |-> "error"]
      ELSE IF fs[p].mtime > req.delTime
             THEN [fs |-> fs, tab |-> tab, err |-> FALSE, what |-> "stale"]
      ELSE [fs |-> TouchParent(RemoveAll(fs, p), p, t),
            tab |-> TablePut(tab, req.relPath, req.delTime),
            err |-> FALSE, what |-> "deleted"]

\* Server.handleDelete.  The result names the new tree, the new table, whether
\* the handler returned an error, and what it did.
HandleDelete(fs, tab, req, t) ==
  LET p  == Fqpath(req.relPath)
      st == Stat(fs, p)
  IN  IF st = "notexist" THEN [fs |-> fs, tab |-> tab, err |-> FALSE, what |-> "absent"]
      ELSE IF st = "error" THEN [fs |-> fs, tab |-> tab, err |-> TRUE, what |-> "error"]
      ELSE IF ~(fs[p].mtime < req.delTime)
             THEN [fs |-> fs, tab |-> tab, err |-> FALSE, what |-> "stale"]
      ELSE [fs |-> TouchParent(RemoveAll(fs, p), p, t),
            tab |-> TablePut(tab, req.relPath, req.delTime),
            err |-> FALSE, what |-> "deleted"]

\* Server.handleCreate (responder with ping): CREATE_FILE and CREATE_DIR.
HandleCreate(fs, req, t) ==
  LET p  == Fqpath(req.relPath)
      st == Stat(fs, p)
  IN  IF st = "error" THEN [fs |-> fs, err |-> TRUE, what |-> "error"]
      ELSE IF st = "ok" THEN [fs |-> fs, err |-> FALSE, what |-> "exists"]
      ELSE IF req.reqType = REQ_TYPE_CREATE_DIR
             THEN [fs |-> Chtimes(MkdirAll(fs, p, t), p, req.modTime),
                   err |-> FALSE, what |-> "mkdir"]
      ELSE IF IsDir(fs, Parent(p))
             THEN [fs |-> TouchParent([fs EXCEPT ![p] = FileNode(<<>>, req.modTime)], p, t),
                   err |-> FALSE, what |-> "mkfile"]
      ELSE \* os.Create failed (its error is dropped), so os.Chtimes fails
           [fs |-> fs, err |-> TRUE, what |-> "error"]

\* Server.handleUpdate up to the ping response: stat, open or create, lock.
UpdateOpen(fs, p, t) ==
  LET st == Stat(fs, p)
  IN  IF st = "error" THEN [fs |-> fs, err |-> TRUE, fexists |-> FALSE]
      ELSE IF st = "ok"
             THEN IF fs[p].kind = "dir"
                    THEN [fs |-> fs, err |-> TRUE, fexists |-> TRUE]   \* EISDIR
                    ELSE [fs |-> fs, err |-> FALSE, fexists |-> TRUE]
      ELSE IF IsDir(fs, Parent(p))
             THEN [fs |-> TouchParent([fs EXCEPT ![p] = FileNode(<<>>, t)], p, t),
                   err |-> FALSE, fexists |-> FALSE]
      ELSE [fs |-> fs, err |-> TRUE, fexists |-> FALSE]

\* The mod-time check with the comparison turned into "not after".
WantFileNotAfter(localMod, reqMod, fexists) == localMod <= reqMod \/ ~fexists

\* Server.handleUpdate, the mod-time check on the follow-up request.
WantFile(localMod, reqMod, fexists) == localMod < reqMod \/ ~fexists

\* The swap without the os.Chtimes.
SwapKeepTime(fs, p, data, reqMod) == [fs EXCEPT ![p].data = data]

\* Server.handleUpdate, the swap: truncate, copy the temp file, set the mod time.
Swap(fs, p, data, reqMod) == [fs EXCEPT ![p] = FileNode(data, reqMod)]

\* The credential check without the comparison of the hashes.
CredentialSizeOK(password, m) ==
  /\ m.kind = "cred"
  /\ m.len = SALT_SIZE + 2 + HASH_SIZE

\* Server.doHandshake, the credential check.
CredentialOK(password, m) ==
  /\ m.kind = "cred"
  /\ m.len = SALT_SIZE + 2 + HASH_SIZE
  /\ SHA256WithPredefinedSalt(password, m.hash.salt) = m.hash

\* ------------------------------------------------------------------ state
VARIABLES
  now,      \* the wall clock, in timestamp units
  fsA,      \* daemon A's tree (the initiator's root)
  fsB,      \* daemon B's tree (the responder's root)
  delA,     \* __deleteTimes of process A
  delB,     \* __deleteTimes of process B
  pwA,      \* Tunnel.Password
  pwB,      \* Server.Password of B
  conn,     \* the connection: which ends are open, whether the network broke it
  c2s,      \* frames in flight, initiator to responder
  s2c,      \* frames in flight, responder to initiator
  tun,      \* the tunnel thread of A (Tunnel.Start)
  srv,      \* the handler thread of B (Server.handleConnection)
  events,   \* watcher.Events of the tunnel's watcher
  watched,  \* directories added to the tunnel's watcher
  sent,     \* history: the requests the tunnel wrote on the current connection
  last,     \* history: the outcome of the latest handler step
  ops,      \* local operations done
  conns,    \* connections dialled
  thr,      \* the threads of process A at their accesses to __deleteTimes
  main,     \* the main goroutine of process A (main) and how the process ended
  loop,     \* Tunnel.Start of A's peer, statement by statement
  wire,     \* an encrypted connection byte by byte: its writer, its reader
  np,       \* the inbound server without ping (src/cmd/server.go) of B
  ev,       \* one call of Tunnel.handleEvent, statement by statement
  mu        \* two daemons that list each other as peers

vars == <<now, fsA, fsB, delA, delB, pwA, pwB, conn, c2s, s2c, tun, srv,
          events, watched, sent, last, ops, conns, thr, main, loop, wire,
          np, ev, mu>>

\* ------------------------------------------------------------------ Init
TunIdle == [pc |-> "start", stage |-> "none", dirs |-> <<>>, files |-> <<>>,
            visited |-> {}, relPath |-> <<>>, h |-> NoNode, listed |-> EmptyTree,
            rlock |-> FALSE]
SrvIdle == [pc |-> "idle", relPath |-> <<>>, fexists |-> FALSE, reqMod |-> 0,
            temp |-> <<>>, tempOn |-> FALSE, locked |-> FALSE, hs |-> <<>>,
            before |-> NoNode]
NoConn == [cli |-> FALSE, srv |-> FALSE, broken |-> FALSE, who |-> "none",
           emptyB |-> FALSE]
Nothing == [who |-> "-", what |-> "-", path |-> <<>>]

\* The threads of process A that touch __deleteTimes: the Start loop of each
\* outbound tunnel and a handler of the inbound server.  A thread is outside
\* the table (pc "out") or inside one access to it.
Tunnels == {"tunnel1", "tunnel2"}
TableThreads == Tunnels \cup {"inbound"}
ThrOut == [pc |-> "out", phase |-> "boot", key |-> <<>>, val |-> 0, seen |-> {}]
ThrStart == [t \in TableThreads |-> ThrOut]

\* main before it has read its configuration; code is the exit status, -1
\* while the process runs.
MainStart == [pc |-> "config", left |-> 0, serve |-> FALSE, listen |-> "none",
              code |-> -1]

\* Tunnel.Start before main has started it.  waited is the sleep before the
\* latest dial, prev the one before the dial before it, after how the previous
\* attempt ended, first whether no dial of this createConnections has failed,
\* open the connections the tunnel holds open.
LoopOff == [pc |-> "off", firstLoop |-> FALSE, currentSleepTime |-> 0,
            conn |-> "nil", open |-> 0, waited |-> 0, prev |-> 0,
            after |-> "none", first |-> TRUE]

\* An encrypted connection with nothing written: the bytes in flight, the
\* writer inside WriteEncryptedStream (w), the messages it has written, the
\* reader inside ReadEncryptedStream (r) with the bytes it has taken for the
\* frame (n), and what ReadEncryptedFull returned, call by call.
WireStart == [bytes |-> <<>>,
              w |-> [pc |-> "idle", msg |-> <<>>, iv |-> <<>>],
              wrote |-> <<>>,
              r |-> [pc |-> "length", size |-> 0, iv |-> <<>>, buf |-> <<>>,
                     buffered |-> <<>>, plain |-> <<>>, n |-> 0],
              got |-> <<>>]

\* The connections the listener of B hands to handlers at one time.
InboundConns == {"c1", "c2"}

\* A handler of the inbound server without ping before its connection is
\* accepted: the request it works on, the temp file, whether it created the
\* target, what the second os.Stat saw, why it returned, and the request type
\* it turned down as unknown.
NPOff == [pc |-> "off", relPath |-> <<>>, modTime |-> 0, temp |-> <<>>,
          created |-> FALSE, seen |-> NoNode, why |-> "-", bad |-> -1]

\* The inbound server of src/cmd/server.go before Server.Start: the listener,
\* a handler for each connection, the holder of the lock on old.txt, and a
\* local program on B that writes old.txt under the lock.
NoPingStart == [ln |-> "off", h |-> [c \in InboundConns |-> NPOff],
                lock |-> "none", writer |-> "idle"]

\* Tunnel.WatchHandler before an event is taken: the event (name, op), the
\* relative path handleEvent derived, the requests written, the paths added
\* to the watcher, what os.Stat said, and what the handler returned.
EventStart == [pc |-> "idle", name |-> <<>>, op |-> {}, relPath |-> <<>>,
               sent |-> <<>>, added |-> {}, stat |-> "none", ret |-> "none"]

\* Two daemons that list each other as peers, and the other one of each.
Daemons == {"A", "B"}
Peer(d) == IF d = "A" THEN "B" ELSE "A"

\* Two daemons before either has dialled the other.  For each daemon d: its
\* tunnel (with the handle of the local file it sends), the handler of its
\* inbound server for the connection of its peer's tunnel, the requests its
\* tunnel has written (req), the responses on their way to its tunnel (resp),
\* the events of its watcher (evq), and who holds the lock on its copy of the
\* file: nobody, its tunnel (a read lock, "R") or its handler (the write
\* lock, "W").  pushed names the daemon that last began to push the file on
\* its own account (the bootstrap of its tunnel, or a local write), clean says
\* whether everything else was at rest at that moment, want is the number of
\* file bodies that push calls for, and bodies counts the bodies received
\* since.
MutualStart ==
  [tun  |-> [d \in Daemons |-> [pc |-> "off", h |-> NoNode]],
   hnd  |-> [d \in Daemons |-> [pc |-> "idle", fexists |-> FALSE, modTime |-> 0,
                                temp |-> <<>>]],
   req  |-> [d \in Daemons |-> <<>>],
   resp |-> [d \in Daemons |-> <<>>],
   evq  |-> [d \in Daemons |-> <<>>],
   lock |-> [d \in Daemons |-> "none"],
   pushed |-> "none", clean |-> FALSE, want |-> 0, bodies |-> 0]

\* The tree A starts with: a file, and a directory holding a file.
InitTreesA ==
  { [EmptyTree EXCEPT ![<<"old.txt">>] = FileNode(<<1>>, 2),
                      ![<<"sub">>] = DirNode(1),
                      ![<<"sub", "b.txt">>] = FileNode(<<1, 2>>, 1)] }

\* The trees B starts with: empty, or a copy of old.txt that is older than,
\* as old as, or newer than A's.
InitTreesB ==
  { EmptyTree } \cup
  { [EmptyTree EXCEPT ![<<"old.txt">>] = FileNode(<<1, 2>>, m)] : m \in 1..4 }

Init ==
  /\ now = 4
  /\ fsA \in InitTreesA
  /\ fsB \in InitTreesB
  /\ delA = NoTable
  /\ delB = NoTable
  /\ pwA \in {"foo", "bar"}
  /\ pwB = "bar"
  /\ conn = NoConn
  /\ c2s = <<>>
  /\ s2c = <<>>
  /\ tun = TunIdle
  /\ srv = SrvIdle
  /\ events = <<>>
  /\ watched = {}
  /\ sent = <<>>
  /\ last = Nothing
  /\ ops = 0
  /\ conns = 0
  /\ thr = ThrStart
  /\ main = MainStart
  /\ loop = LoopOff
  /\ wire = WireStart
  /\ np = NoPingStart
  /\ ev = EventStart
  /\ mu = MutualStart

\* ------------------------------------------------------------ connection
\* A write by the initiator reaches the responder; otherwise it fails.
CliWriteOK == conn.cli /\ conn.srv /\ ~conn.broken
CliCanRead == conn.cli /\ ~conn.broken /\ s2c # <<>>
CliReadErr == conn.cli /\ (conn.broken \/ (s2c = <<>> /\ ~conn.srv))
SrvWriteOK == conn.srv /\ conn.cli /\ ~conn.broken
SrvCanRead == conn.srv /\ ~conn.broken /\ c2s # <<>>
SrvReadErr == conn.srv /\ (conn.broken \/ (c2s = <<>> /\ ~conn.cli))

\* The network breaks the connection while the responder is inside an UPDATE
\* exchange: what is in flight is lost.
Drop ==
  /\ conn.cli \/ conn.srv
  /\ srv.pc \in {"upd_follow", "upd_body"}
  /\ ~conn.broken
  /\ conn' = [conn EXCEPT !.broken = TRUE]
  /\ c2s' = <<>>
  /\ s2c' = <<>>
  /\ UNCHANGED <<thr, main, loop, wire, np, ev, mu, now, fsA, fsB, delA, delB, pwA, pwB, tun, srv, events, watched,
                 sent, last, ops, conns>>

\* Someone on the network flips a bit of the MAC that trails a file body, once
\* the bytes of the body have gone by.
Tamper ==
  /\ srv.pc = "upd_body" /\ conn.srv /\ ~conn.broken
  /\ c2s # <<>> /\ Head(c2s).kind = "body" /\ Head(c2s).macOK
  /\ Len(srv.temp) = Len(Head(c2s).data)
  /\ c2s' = <<[Head(c2s) EXCEPT !.macOK = FALSE]>> \o Tail(c2s)
  /\ UNCHANGED <<thr, main, loop, wire, np, ev, mu, now, fsA, fsB, delA, delB, pwA, pwB, conn, s2c, tun, srv,
                 events, watched, sent, last, ops, conns>>

\* ------------------------------------------------- the local user of A
Notify(evs, w, p, op) ==
  IF <<>> \in w /\ Parent(p) \in w THEN Append(evs, [path |-> p, op |-> op]) ELSE evs

LocalFrame ==
  /\ ops < MaxLocalOps
  /\ ops' = ops + 1
  /\ now' = now + 1
  /\ UNCHANGED <<thr, main, loop, wire, np, ev, mu, fsB, delA, delB, pwA, pwB, conn, c2s, s2c, tun, srv, watched,
                 sent, last, conns>>

\* A new file with content: the watcher reports CREATE and then WRITE.
UserCreate(p) ==
  /\ LocalFrame
  /\ ~Exists(fsA, p) /\ IsDir(fsA, Parent(p))
  /\ fsA' = TouchParent([fsA EXCEPT ![p] = FileNode(<<1>>, now)], p, now)
  /\ events' = Notify(Notify(events, watched, p, "CREATE"), watched, p, "WRITE")

\* A write to an existing file; a writer waits while the tunnel holds the read lock.
UserWrite(p) ==
  /\ LocalFrame
  /\ IsFile(fsA, p)
  /\ ~(tun.pc = "upd_resp" /\ tun.relPath = p)
  /\ fsA' = [fsA EXCEPT ![p] = FileNode(IF fsA[p].data = <<1, 2>> THEN <<1>> ELSE <<1, 2>>, now)]
  /\ events' = Notify(events, watched, p, "WRITE")

UserRemove(p) ==
  /\ LocalFrame
  /\ Exists(fsA, p) /\ Children(fsA, p) = {}
  /\ fsA' = TouchParent(RemoveAll(fsA, p), p, now)
  /\ events' = Notify(events, watched, p, "REMOVE")

\* A rename keeps the file's content and mod time: RENAME on the old name,
\* CREATE on the new one, no WRITE.
UserRename(p, q) ==
  /\ LocalFrame
  /\ IsFile(fsA, p) /\ ~Exists(fsA, q) /\ IsDir(fsA, Parent(q))
  /\ fsA' = TouchParent(TouchParent([fsA EXCEPT ![p] = NoNode, ![q] = fsA[p]], p, now), q, now)
  /\ events' = Notify(Notify(events, watched, p, "RENAME"), watched, q, "CREATE")

\* ---------------------------------------- A's own inbound server (DELETE)
\* Server.handleDelete of process A, for a DELETE of some peer of A: it writes
\* A's tree and A's __deleteTimes, and A's watcher reports the removal.
InboundDelete(p, dt) ==
  LET r == HandleDelete(fsA, delA, Req(REQ_TYPE_DELETE, p, 0, dt), now)
  IN  /\ ops < MaxLocalOps
      /\ ops' = ops + 1
      /\ Exists(fsA, p)
      /\ fsA' = r.fs
      /\ delA' = r.tab
      /\ now' = now
      /\ events' = IF r.what = "deleted" THEN Notify(events, watched, p, "REMOVE") ELSE events
      /\ last' = [who |-> "A", what |-> r.what, path |-> p]
      /\ UNCHANGED <<thr, main, loop, wire, np, ev, mu, fsB, delB, pwA, pwB, conn, c2s, s2c, tun, srv, watched, sent,
                     conns>>

\* ------------------------------------------------------------ the tunnel
\* An error return that leaves the local file read-locked.
TunnelAbortLocked ==
  /\ tun' = [TunIdle EXCEPT !.rlock = tun.rlock]
  /\ conn' = [conn EXCEPT !.cli = FALSE]
  /\ s2c' = <<>>
  /\ events' = <<>>
  /\ watched' = {}

\* Every error return of doHandshake or Watch: Start logs it, the deferred
\* calls run (UnlockAndClose of the local file, watcher.Close()) and the loop
\* closes the connection.
TunnelAbort ==
  /\ tun' = TunIdle
  /\ conn' = [conn EXCEPT !.cli = FALSE]
  /\ s2c' = <<>>
  /\ events' = <<>>
  /\ watched' = {}

\* EncryptedConnection.WriteEncryptedFull of request m, after which the tunnel
\* is t, its watcher queue evs and its watch list w.
Emit(m, t, evs, w) ==
  IF CliWriteOK
  THEN /\ c2s' = Append(c2s, m)
       /\ sent' = Append(sent, [req |-> m, stage |-> t.stage])
       /\ tun' = t
       /\ events' = evs
       /\ watched' = w
       /\ UNCHANGED <<conn, s2c>>
  ELSE /\ TunnelAbort
       /\ UNCHANGED <<c2s, sent>>

\* A handler that returns nil without writing.
Quiet(t, evs, w) ==
  /\ tun' = t
  /\ events' = evs
  /\ watched' = w
  /\ UNCHANGED <<conn, c2s, s2c, sent>>

\* A delete time that is always the current time.
DelTimeNow(tab, p, t) == t

\* Tunnel.handleEventDelete, the delete time: the remembered one, else now.
DelTimeFor(tab, p, t) == IF p \in DOMAIN tab THEN tab[p] ELSE t

\* Tunnel.handleEventDelete
HandleEventDelete(p, t, evs) ==
  /\ delA' = IF p \in DOMAIN delA THEN delA ELSE TablePut(delA, p, now)
  /\ now' = IF p \in DOMAIN delA THEN now ELSE now + 1
  /\ Emit(Req(REQ_TYPE_DELETE, p, 0, DelTimeFor(delA, p, now)), t, evs, watched \ {p})

\* Tunnel.handleEventCreate.  A stat error other than not-exist leaves fi nil
\* and the handler dereferences it: the process panics.
HandleEventCreate(p, t, evs) ==
  /\ delA' = TableDelete(delA, p)
  /\ now' = now
  /\ CASE Stat(fsA, p) = "notexist" -> Quiet(t, evs, watched)
       [] Stat(fsA, p) = "error" -> Quiet([t EXCEPT !.pc = "panic"], evs, watched)
       [] OTHER ->
            IF fsA[p].kind = "dir"
            THEN Emit(Req(REQ_TYPE_CREATE_DIR, p, fsA[p].mtime, 0), t, evs, watched \cup {p})
            ELSE Emit(Req(REQ_TYPE_CREATE_FILE, p, fsA[p].mtime, 0), t, evs, watched)

\* Tunnel.handleEventUpdate up to the ping: it then waits for the response.
HandleEventUpdate(p, t, evs) ==
  /\ delA' = TableDelete(delA, p)
  /\ now' = now
  /\ Emit(Req(REQ_TYPE_UPDATE_PING, p, 0, 0), [t EXCEPT !.pc = "upd_ping", !.relPath = p],
          evs, watched)

\* Tunnel.handleEvent: REMOVE or RENAME first, then CREATE, then WRITE.
HandleEvent(op, p, t, evs) ==
  CASE op \in {"REMOVE", "RENAME"} -> HandleEventDelete(p, t, evs)
    [] op = "CREATE" -> HandleEventCreate(p, t, evs)
    [] op = "WRITE" -> HandleEventUpdate(p, t, evs)

\* A tunnel whose steps stamp the files of its own tree with the current time.
TunnelFrameStamp ==
  /\ UNCHANGED <<thr, main, loop, wire, np, ev, mu, fsB, delB, pwA, pwB, srv, last, ops>>
  /\ fsA' = [p \in Paths |-> IF fsA[p].kind = "file" THEN [fsA[p] EXCEPT !.mtime = now]
                                                     ELSE fsA[p]]

\* What no step of the tunnel touches: tunnel.go calls nothing that writes the
\* tree (os.Stat, os.OpenFile with O_RDONLY, reads of the locked handle).
TunnelFrame == UNCHANGED <<thr, main, loop, wire, np, ev, mu, fsA, fsB, delB, pwA, pwB, srv, last, ops>>

\* Tunnel.Start: createConnections dials, doHandshake writes "hello".  The
\* listener of B accepts and starts a handler.
TunnelDial ==
  /\ tun.pc = "start"
  /\ ~conn.cli /\ ~conn.srv /\ srv.pc = "idle"
  /\ conns < MaxConns
  /\ conns' = conns + 1
  /\ conn' = [cli |-> TRUE, srv |-> TRUE, broken |-> FALSE, who |-> "tunnel",
              emptyB |-> fsB = EmptyTree]
  /\ c2s' = <<Plain("hello")>>
  /\ s2c' = <<>>
  /\ sent' = <<>>
  /\ tun' = [TunIdle EXCEPT !.pc = "hello"]
  /\ srv' = [SrvIdle EXCEPT !.pc = "hello"]
  /\ UNCHANGED <<thr, main, loop, wire, np, ev, mu, now, fsA, fsB, delA, delB, pwA, pwB, events, watched, last, ops>>

\* Tunnel.doHandshake: the first "ok", then the credential.
TunnelHello ==
  /\ tun.pc = "hello"
  /\ CliCanRead
  /\ IF Head(s2c) = Plain("ok") /\ CliWriteOK
     THEN /\ tun' = [tun EXCEPT !.pc = "password"]
          /\ s2c' = Tail(s2c)
          /\ c2s' = Append(c2s, Cred(SHA256WithPredefinedSalt(pwA, "salt")))
          /\ UNCHANGED <<conn, events, watched>>
     ELSE /\ TunnelAbort
          /\ UNCHANGED c2s
  /\ UNCHANGED <<now, delA, sent, conns>>
  /\ TunnelFrame

\* Tunnel.doHandshake: the second "ok"; then Tunnel.Watch opens the watcher on
\* the root and lists the tree.
TunnelReady ==
  /\ tun.pc = "password"
  /\ CliCanRead
  /\ IF Head(s2c) = Plain("ok")
     THEN /\ tun' = [tun EXCEPT !.pc = "run", !.stage = "dirs",
                                !.dirs = ListItems(fsA, <<>>).dirs,
                                !.files = ListItems(fsA, <<>>).files,
                                !.listed = fsA]
          /\ s2c' = Tail(s2c)
          /\ watched' = {<<>>}
          /\ events' = <<>>
          /\ UNCHANGED conn
     ELSE TunnelAbort
  /\ UNCHANGED <<now, delA, c2s, sent, conns>>
  /\ TunnelFrame

\* A read of the tunnel fails: the connection broke, or the responder closed it.
TunnelReadError ==
  /\ tun.pc \in {"hello", "password", "upd_ping", "upd_resp"}
  /\ CliReadErr
  /\ TunnelAbort
  /\ UNCHANGED <<now, delA, c2s, sent, conns>>
  /\ TunnelFrame

\* Tunnel.Watch, first loop: a synthetic CREATE for each listed directory.
BootDir ==
  /\ tun.pc = "run" /\ tun.stage = "dirs" /\ tun.dirs # <<>>
  /\ HandleEvent("CREATE", Head(tun.dirs), [tun EXCEPT !.dirs = Tail(tun.dirs)], events)
  /\ UNCHANGED conns
  /\ TunnelFrame

\* Tunnel.Watch, second loop: a synthetic REMOVE for each key the range over
\* __deleteTimes yields; the order of a map range is not fixed.
BootDelete ==
  /\ tun.pc = "run" /\ tun.stage \in {"dirs", "dels"} /\ tun.dirs = <<>>
  /\ \E p \in DOMAIN delA \ tun.visited :
       HandleEvent("REMOVE", p,
                   [tun EXCEPT !.stage = "dels", !.visited = tun.visited \cup {p}], events)
  /\ UNCHANGED conns
  /\ TunnelFrame

\* A bootstrap that does not wait for the range over the table.
RangeSkipped == TRUE

RangeDone == tun.stage \in {"files", "live"} \/ DOMAIN delA \ tun.visited = {}

\* Tunnel.Watch, third loop: a synthetic WRITE for each listed file.
BootFile ==
  /\ tun.pc = "run" /\ tun.dirs = <<>> /\ RangeDone /\ tun.stage # "live"
  /\ tun.files # <<>>
  /\ HandleEvent("WRITE", Head(tun.files),
                 [tun EXCEPT !.stage = "files", !.files = Tail(tun.files)], events)
  /\ UNCHANGED conns
  /\ TunnelFrame

\* Tunnel.WatchHandler: one event of the watcher.
LiveEvent ==
  /\ tun.pc = "run" /\ tun.dirs = <<>> /\ RangeDone /\ tun.files = <<>>
  /\ events # <<>>
  /\ HandleEvent(Head(events).op, Head(events).path, [tun EXCEPT !.stage = "live"],
                 Tail(events))
  /\ UNCHANGED conns
  /\ TunnelFrame

\* os.OpenFile(fullPath, os.O_RDONLY, 0666) in Tunnel.handleEventUpdate
\* succeeds on whatever exists at the path.
OpenLocal(fs, p) == Exists(fs, p)

\* Tunnel.handleEventUpdate after the ping response: open the local file, read-
\* lock it, stat it, send UPDATE.  When the file cannot be opened it returns nil.
PingReply ==
  /\ tun.pc = "upd_ping"
  /\ CliCanRead
  /\ LET m == Head(s2c)
         p == tun.relPath
         u == Req(REQ_TYPE_UPDATE, p, fsA[p].mtime, 0)
     IN  CASE m.kind # "resp" \/ ~m.pingOK ->
                TunnelAbort /\ UNCHANGED <<c2s, sent>>
           [] m.kind = "resp" /\ m.pingOK /\ ~OpenLocal(fsA, p) ->
                /\ tun' = [tun EXCEPT !.pc = "run", !.relPath = <<>>]
                /\ s2c' = Tail(s2c)
                /\ UNCHANGED <<conn, c2s, sent, events, watched>>
           [] m.kind = "resp" /\ m.pingOK /\ OpenLocal(fsA, p) ->
                IF CliWriteOK
                THEN /\ c2s' = Append(c2s, u)
                     /\ sent' = Append(sent, [req |-> u, stage |-> tun.stage])
                     /\ s2c' = Tail(s2c)
                     /\ tun' = [tun EXCEPT !.pc = "upd_resp", !.h = fsA[p], !.rlock = TRUE]
                     /\ UNCHANGED <<conn, events, watched>>
                ELSE TunnelAbort /\ UNCHANGED <<c2s, sent>>
  /\ UNCHANGED <<now, delA, conns>>
  /\ TunnelFrame

\* Tunnel.handleEventUpdate after the response to UPDATE: stream the body from
\* the locked handle when the responder asks for it; the deferred
\* UnlockAndClose runs on return.  Reading a directory handle fails.
SendReply ==
  /\ tun.pc = "upd_resp"
  /\ CliCanRead
  /\ LET m == Head(s2c)
         b == Body(tun.h.data)
         t == [tun EXCEPT !.pc = "run", !.relPath = <<>>, !.h = NoNode, !.rlock = FALSE]
     IN  CASE m.kind # "resp" ->
                TunnelAbort /\ UNCHANGED <<c2s, sent>>
           [] m.kind = "resp" /\ ~m.sendFile ->
                /\ tun' = t
                /\ s2c' = Tail(s2c)
                /\ UNCHANGED <<conn, c2s, sent, events, watched>>
           [] m.kind = "resp" /\ m.sendFile ->
                IF CliWriteOK /\ tun.h.kind = "file"
                THEN /\ c2s' = Append(c2s, b)
                     /\ sent' = Append(sent, [req |-> b, stage |-> tun.stage])
                     /\ s2c' = Tail(s2c)
                     /\ tun' = t
                     /\ UNCHANGED <<conn, events, watched>>
                ELSE TunnelAbort /\ UNCHANGED <<c2s, sent>>
  /\ UNCHANGED <<now, delA, conns>>
  /\ TunnelFrame

\* ------------------------------------------------- a client that is no tunnel
\* Some other program connects to B's listener and opens with a frame of its
\* choice: "hello" or something else.
RogueDial(first) ==
  /\ ~conn.cli /\ ~conn.srv /\ srv.pc = "idle"
  /\ conns < MaxConns
  /\ conns' = conns + 1
  /\ conn' = [cli |-> TRUE, srv |-> TRUE, broken |-> FALSE, who |-> "rogue",
              emptyB |-> fsB = EmptyTree]
  /\ c2s' = <<Plain(first)>>
  /\ s2c' = <<>>
  /\ srv' = [SrvIdle EXCEPT !.pc = "hello"]
  /\ UNCHANGED <<thr, main, loop, wire, np, ev, mu, now, fsA, fsB, delA, delB, pwA, pwB, tun, events, watched, sent,
                 last, ops>>

\* After the first "ok" it sends a credential frame holding the right salted
\* hash, of 44 bytes or cut to another size.
RogueCredential(n) ==
  /\ conn.who = "rogue" /\ CliCanRead /\ CliWriteOK
  /\ srv.pc = "password" /\ c2s = <<>>
  /\ c2s' = <<[Cred(SHA256WithPredefinedSalt(pwB, "salt")) EXCEPT !.len = n]>>
  /\ s2c' = Tail(s2c)
  /\ UNCHANGED <<thr, main, loop, wire, np, ev, mu, now, fsA, fsB, delA, delB, pwA, pwB, conn, tun, srv, events, watched,
                 sent, last, ops, conns>>

\* Past the handshake it writes a request the tunnel never writes: an UPDATE
\* without its ping, or a DELETE that names old.txt as "./old.txt".
RogueRequests ==
  { Req(REQ_TYPE_UPDATE, <<"old.txt">>, now, 0),
    Req(REQ_TYPE_DELETE, <<".", "old.txt">>, 0, now + 1) }

RogueRequest(m) ==
  /\ conn.who = "rogue" /\ CliCanRead /\ CliWriteOK
  /\ srv.pc = "generic" /\ c2s = <<>>
  /\ c2s' = <<m>>
  /\ s2c' = Tail(s2c)
  /\ UNCHANGED <<thr, main, loop, wire, np, ev, mu, now, fsA, fsB, delA, delB, pwA, pwB, conn, tun, srv, events, watched,
                 sent, last, ops, conns>>

\* It goes away once the responder has closed the connection.
RogueClose ==
  /\ conn.who = "rogue" /\ conn.cli /\ ~conn.srv
  /\ conn' = [conn EXCEPT !.cli = FALSE]
  /\ s2c' = <<>>
  /\ UNCHANGED <<thr, main, loop, wire, np, ev, mu, now, fsA, fsB, delA, delB, pwA, pwB, c2s, tun, srv, events, watched,
                 sent, last, ops, conns>>

\* ------------------------------------------------- the handler of B
\* An error return that leaves the target locked.
SrvExitLocked(what) ==
  /\ srv' = [SrvIdle EXCEPT !.locked = srv.locked]
  /\ conn' = [conn EXCEPT !.srv = FALSE]
  /\ c2s' = <<>>
  /\ last' = [who |-> "B", what |-> what, path |-> srv.relPath]

\* Every return of Server.handleConnection: the deferred calls remove the temp
\* file, unlock and close the target, and close the connection.
SrvExit(what) ==
  /\ srv' = SrvIdle
  /\ conn' = [conn EXCEPT !.srv = FALSE]
  /\ c2s' = <<>>
  /\ last' = [who |-> "B", what |-> what, path |-> srv.relPath]

\* A frame the responder can json.Unmarshal into a FileInfoReq.
IsRequest(m) == m.kind = "req"

SrvFrame == UNCHANGED <<thr, main, loop, wire, np, ev, mu, fsA, delA, pwA, pwB, tun, events, watched, sent, ops, conns>>

\* Server.doHandshake: read "hello", answer "ok".
SrvHello ==
  /\ srv.pc = "hello"
  /\ SrvCanRead
  /\ IF Head(c2s) = Plain("hello") /\ SrvWriteOK
     THEN /\ srv' = [srv EXCEPT !.pc = "password", !.hs = <<Head(c2s)>>]
          /\ c2s' = Tail(c2s)
          /\ s2c' = Append(s2c, Plain("ok"))
          /\ UNCHANGED <<conn, last>>
     ELSE SrvExit("handshake failed") /\ UNCHANGED s2c
  /\ UNCHANGED <<now, fsB, delB>>
  /\ SrvFrame

\* Server.doHandshake: read the credential, check size and hash, answer "ok";
\* Server.handleConnection then enters handleRequests.
SrvPassword ==
  /\ srv.pc = "password"
  /\ SrvCanRead
  /\ IF CredentialOK(pwB, Head(c2s)) /\ SrvWriteOK
     THEN /\ srv' = [srv EXCEPT !.pc = "generic", !.hs = Append(srv.hs, Head(c2s))]
          /\ c2s' = Tail(c2s)
          /\ s2c' = Append(s2c, Plain("ok"))
          /\ UNCHANGED <<conn, last>>
     ELSE SrvExit("handshake failed") /\ UNCHANGED s2c
  /\ UNCHANGED <<now, fsB, delB>>
  /\ SrvFrame

\* A read of the handler fails: the connection broke, or the initiator closed it.
SrvReadError ==
  /\ srv.pc \in {"hello", "password", "generic", "upd_follow", "upd_body"}
  /\ SrvReadErr
  /\ SrvExit("read error")
  /\ UNCHANGED <<now, fsB, delB, s2c>>
  /\ SrvFrame

\* Server.handleRequests, one turn of the loop for a CREATE_FILE / CREATE_DIR.
SrvCreate ==
  /\ srv.pc = "generic"
  /\ SrvCanRead
  /\ IsRequest(Head(c2s))
  /\ Head(c2s).reqType \in {REQ_TYPE_CREATE_FILE, REQ_TYPE_CREATE_DIR}
  /\ LET r == HandleCreate(fsB, Head(c2s), now)
     IN  /\ fsB' = r.fs
         /\ IF r.err
            THEN SrvExit(r.what)
            ELSE /\ c2s' = Tail(c2s)
                 /\ last' = [who |-> "B", what |-> r.what, path |-> Head(c2s).relPath]
                 /\ UNCHANGED <<srv, conn>>
  /\ UNCHANGED <<now, delB, s2c>>
  /\ SrvFrame

\* Server.handleRequests, one turn of the loop for a DELETE.
SrvDelete ==
  /\ srv.pc = "generic"
  /\ SrvCanRead
  /\ IsRequest(Head(c2s))
  /\ Head(c2s).reqType = REQ_TYPE_DELETE
  /\ LET r == HandleDelete(fsB, delB, Head(c2s), now)
     IN  /\ fsB' = r.fs
         /\ delB' = r.tab
         /\ IF r.err
            THEN SrvExit(r.what)
            ELSE /\ c2s' = Tail(c2s)
                 /\ last' = [who |-> "B", what |-> r.what, path |-> Head(c2s).relPath]
                 /\ UNCHANGED <<srv, conn>>
  /\ UNCHANGED <<now, s2c>>
  /\ SrvFrame

\* Server.handleRequests: a frame that is no request, or a request type the
\* switch does not name (REQ_TYPE_UPDATE arrives only as a follow-up).
SrvUnknown ==
  /\ srv.pc = "generic"
  /\ SrvCanRead
  /\ \/ ~IsRequest(Head(c2s))
     \/ /\ IsRequest(Head(c2s))
        /\ Head(c2s).reqType \notin {REQ_TYPE_UPDATE_PING, REQ_TYPE_CREATE_FILE,
                                     REQ_TYPE_CREATE_DIR, REQ_TYPE_DELETE}
  /\ SrvExit("unknown request")
  /\ UNCHANGED <<now, fsB, delB, s2c>>
  /\ SrvFrame

\* Server.handleUpdate on UPDATE_PING: stat, open or create the target, write-
\* lock it, answer pingOK, then wait for the follow-up.
SrvPing ==
  /\ srv.pc = "generic"
  /\ SrvCanRead
  /\ IsRequest(Head(c2s))
  /\ Head(c2s).reqType = REQ_TYPE_UPDATE_PING
  /\ LET p == Head(c2s).relPath
         r == UpdateOpen(fsB, p, now)
     IN  /\ fsB' = r.fs
         /\ now' = IF r.fs # fsB THEN now + 1 ELSE now
         /\ IF r.err \/ ~SrvWriteOK
            THEN /\ SrvExit("ping failed")
                 /\ UNCHANGED s2c
            ELSE /\ srv' = [srv EXCEPT !.pc = "upd_follow", !.relPath = p,
                                       !.fexists = r.fexists, !.locked = TRUE,
                                       !.before = fsB[p]]
                 /\ c2s' = Tail(c2s)
                 /\ s2c' = Append(s2c, Resp(TRUE, FALSE))
                 /\ last' = [who |-> "B", what |-> "locked", path |-> p]
                 /\ UNCHANGED conn
  /\ UNCHANGED delB
  /\ SrvFrame

\* Server.handleUpdate on the follow-up: it must name the same relPath (its
\* ReqType is not looked at); compare the mod times and answer sendFile; when
\* it asks for the file it creates the temp file and waits for the body.
SrvFollowUp ==
  /\ srv.pc = "upd_follow"
  /\ SrvCanRead
  /\ LET m == Head(c2s)
         p == srv.relPath
     IN  IF ~IsRequest(m) \/ m.relPath # p \/ ~SrvWriteOK
         THEN /\ SrvExit("follow-up failed")
              /\ UNCHANGED s2c
         ELSE /\ c2s' = Tail(c2s)
              /\ s2c' = Append(s2c, Resp(FALSE, WantFile(fsB[p].mtime, m.modTime, srv.fexists)))
              /\ IF WantFile(fsB[p].mtime, m.modTime, srv.fexists)
                 THEN /\ srv' = [srv EXCEPT !.pc = "upd_body", !.reqMod = m.modTime,
                                            !.temp = <<>>, !.tempOn = TRUE]
                      /\ last' = [who |-> "B", what |-> "wants file", path |-> p]
                 ELSE /\ srv' = [SrvIdle EXCEPT !.pc = "generic", !.hs = srv.hs]
                      /\ last' = [who |-> "B", what |-> "up to date", path |-> p]
              /\ UNCHANGED conn
  /\ UNCHANGED <<now, fsB, delB>>
  /\ SrvFrame

\* EncryptedConnection.ReadEncryptedStream into the temp file: the next byte of
\* the frame that follows, whatever the initiator meant that frame to be.
SrvBodyChunk ==
  /\ srv.pc = "upd_body"
  /\ SrvCanRead
  /\ Len(srv.temp) < Len(FrameBytes(Head(c2s)))
  /\ srv' = [srv EXCEPT !.temp = Append(srv.temp, FrameBytes(Head(c2s))[Len(srv.temp) + 1])]
  /\ UNCHANGED <<now, fsB, delB, conn, c2s, s2c, last>>
  /\ SrvFrame

\* A comparison of the MACs that always succeeds.
MacIgnored(m) == TRUE

\* The MAC of a frame the initiator wrote verifies unless the frame says not.
MacOK(m) == IF m.kind = "body" THEN m.macOK ELSE TRUE

\* The end of the stream: compare the MAC, then swap under the lock held since
\* the ping (truncate, copy, chtimes); the handler returns to the request loop.
SrvBodyEnd ==
  /\ srv.pc = "upd_body"
  /\ SrvCanRead
  /\ Len(srv.temp) = Len(FrameBytes(Head(c2s)))
  /\ IF MacOK(Head(c2s))
     THEN /\ fsB' = Swap(fsB, srv.relPath, srv.temp, srv.reqMod)
          /\ srv' = [SrvIdle EXCEPT !.pc = "generic", !.hs = srv.hs]
          /\ c2s' = Tail(c2s)
          /\ last' = [who |-> "B", what |-> "updated", path |-> srv.relPath]
          /\ UNCHANGED conn
     ELSE /\ SrvExit("hashes do not match")
          /\ UNCHANGED fsB
  /\ UNCHANGED <<now, delB, s2c>>
  /\ SrvFrame

\* ------------------------------------------------------------ the system
Next ==
  \/ Drop
  \/ Tamper
  \/ \E p \in UserPaths : UserCreate(p)
  \/ \E p \in UserPaths : UserWrite(p)
  \/ \E p \in UserPaths : UserRemove(p)
  \/ \E p \in UserPaths, q \in UserPaths : UserRename(p, q)
  \/ \E p \in Paths : \E dt \in {fsA[p].mtime, fsA[p].mtime + 1} : InboundDelete(p, dt)
  \/ \E first \in {"hello", "hi"} : RogueDial(first)
  \/ \E n \in {SALT_SIZE + 2, SALT_SIZE + 2 + HASH_SIZE} : RogueCredential(n)
  \/ \E m \in RogueRequests : RogueRequest(m)
  \/ RogueClose
  \/ TunnelDial
  \/ TunnelHello
  \/ TunnelReady
  \/ TunnelReadError
  \/ BootDir
  \/ BootDelete
  \/ BootFile
  \/ LiveEvent
  \/ PingReply
  \/ SendReply
  \/ SrvHello
  \/ SrvPassword
  \/ SrvReadError
  \/ SrvCreate
  \/ SrvDelete
  \/ SrvUnknown
  \/ SrvPing
  \/ SrvFollowUp
  \/ SrvBodyChunk
  \/ SrvBodyEnd

Spec == Init /\ [][Next]_vars

\* ------------------------------------------- the accesses to __deleteTimes
\* The table is a plain Go map and no access to it takes a lock, so an access
\* of one thread starts and ends with the other threads free to run between.
\* This specification follows the threads of process A through their accesses
\* only; the trees and the connections stay as they are.
TableKeys == UserPaths
PeerDelTimes == {1, 2}

Accessing(t) == thr[t].pc # "out" /\ thr[t].pc # "fatal"
Writing(t) == thr[t].pc \in {"insert", "remove"}

\* Another thread is inside the table while t writes it, or writes it while t
\* is inside: a data race on the map.
Raced(t) ==
  \E u \in TableThreads \ {t} : Accessing(u) /\ (Writing(t) \/ Writing(u))

\* The Go runtime may detect a racing map access and end the process
\* ("fatal error: concurrent map writes" / "... iteration and map write").
Fatal == [t \in TableThreads |-> [thr[t] EXCEPT !.pc = "fatal"]]

TableFrame ==
  UNCHANGED <<main, loop, wire, np, ev, mu, now, fsA, fsB, delB, pwA, pwB, conn, c2s, s2c, tun, srv, events,
              watched, sent, last, ops, conns>>

\* The end of an access of t with the table becoming tab: done, or, when the
\* access raced, possibly the runtime's fatal error.
AccessEnd(t, tab, next) ==
  \/ /\ delA' = tab
     /\ thr' = [thr EXCEPT ![t] = next]
  \/ /\ Raced(t)
     /\ delA' = delA
     /\ thr' = Fatal

\* Tunnel.Watch, `for relPath := range __deleteTimes`: the loop is entered.
RangeBegin(t) ==
  /\ t \in Tunnels /\ thr[t].pc = "out" /\ thr[t].phase = "boot"
  /\ thr' = [thr EXCEPT ![t].pc = "range", ![t].seen = {}]
  /\ UNCHANGED delA
  /\ TableFrame

\* One turn of the range loop: the next key, handed to handleEventDelete,
\* which finds the key in the table and sends its remembered time.
RangeNext(t) ==
  /\ t \in Tunnels /\ thr[t].pc = "range"
  /\ \E k \in DOMAIN delA \ thr[t].seen :
       AccessEnd(t, delA, [thr[t] EXCEPT !.seen = thr[t].seen \cup {k}, !.key = k])
  /\ TableFrame

\* The range loop ends when it has produced every key; Watch goes on to the
\* files and then to the live events.
RangeEnd(t) ==
  /\ t \in Tunnels /\ thr[t].pc = "range"
  /\ DOMAIN delA \ thr[t].seen = {}
  /\ AccessEnd(t, delA, [ThrOut EXCEPT !.phase = "live"])
  /\ TableFrame

\* Tunnel.handleEventDelete on a watcher event: the lookup of relPath.
EventDeleteBegin(t, k) ==
  /\ t \in Tunnels /\ thr[t].pc = "out" /\ thr[t].phase = "live"
  /\ thr' = [thr EXCEPT ![t].pc = "lookup", ![t].key = k]
  /\ UNCHANGED delA
  /\ TableFrame

\* Tunnel.handleEventDelete: a key that is found is read; one that is not is
\* inserted with the current time.
EventDeleteLookup(t) ==
  /\ t \in Tunnels /\ thr[t].pc = "lookup"
  /\ IF thr[t].key \in DOMAIN delA
     THEN AccessEnd(t, delA, [ThrOut EXCEPT !.phase = "live"])
     ELSE AccessEnd(t, delA, [thr[t] EXCEPT !.pc = "insert", !.val = now])
  /\ TableFrame

\* Tunnel.handleEventCreate / handleEventUpdate: delete(__deleteTimes, relPath).
EventCreateBegin(t, k) ==
  /\ t \in Tunnels /\ thr[t].pc = "out" /\ thr[t].phase = "live"
  /\ thr' = [thr EXCEPT ![t].pc = "remove", ![t].key = k]
  /\ UNCHANGED delA
  /\ TableFrame

RemoveEnd(t) ==
  /\ thr[t].pc = "remove"
  /\ AccessEnd(t, TableDelete(delA, thr[t].key), [ThrOut EXCEPT !.phase = thr[t].phase])
  /\ TableFrame

\* Server.handleDelete of the inbound server: __deleteTimes[relPath] = req.DelTime.
InboundInsertBegin(k, dt) ==
  /\ thr["inbound"].pc = "out"
  /\ thr' = [thr EXCEPT !["inbound"].pc = "insert", !["inbound"].key = k,
                         !["inbound"].val = dt]
  /\ UNCHANGED delA
  /\ TableFrame

\* The end of an insert, of a tunnel or of the inbound handler.
InsertEnd(t) ==
  /\ thr[t].pc = "insert"
  /\ AccessEnd(t, TablePut(delA, thr[t].key, thr[t].val),
               [ThrOut EXCEPT !.phase = thr[t].phase])
  /\ TableFrame

\* Tunnel.Start: the connection ended, Watch returned, and the loop dials
\* again; the next Watch bootstraps anew.
TableReconnect(t) ==
  /\ t \in Tunnels /\ thr[t].pc = "out" /\ thr[t].phase = "live"
  /\ thr' = [thr EXCEPT ![t].phase = "boot"]
  /\ UNCHANGED delA
  /\ TableFrame

InitTable == Init /\ fsB = EmptyTree /\ pwA = pwB

NextTable ==
  \/ \E t \in Tunnels : RangeBegin(t)
  \/ \E t \in Tunnels : RangeNext(t)
  \/ \E t \in Tunnels : RangeEnd(t)
  \/ \E t \in Tunnels, k \in TableKeys : EventDeleteBegin(t, k)
  \/ \E t \in Tunnels : EventDeleteLookup(t)
  \/ \E t \in Tunnels, k \in TableKeys : EventCreateBegin(t, k)
  \/ \E t \in Tunnels : RemoveEnd(t)
  \/ \E k \in TableKeys, dt \in PeerDelTimes : InboundInsertBegin(k, dt)
  \/ \E t \in TableThreads : InsertEnd(t)
  \/ \E t \in Tunnels : TableReconnect(t)

SpecTable == InitTable /\ [][NextTable]_vars

\* ---------------------------------------------- main and the Start loop
\* This specification follows process A from main through Tunnel.Start and
\* Tunnel.createConnections statement by statement; what doHandshake and Watch
\* do on the connection is in Spec, here they are their outcomes.

\* Tunnel.createConnections: currentSleepTime := 3, sleepTimeInc := 1,
\* maxSleepTime := 30.
startSleepTime == 3
sleepTimeInc == 1
maxSleepTime == 30

\* Peers in the configuration file.
ConfigPeers == 0..1

StartFrame ==
  UNCHANGED <<now, fsA, fsB, delA, delB, pwA, pwB, conn, c2s, s2c, tun, srv,
              events, watched, sent, last, ops, conns, thr, wire, np, ev, mu>>

Running == main.pc # "exit"

\* main: loadConfig and the checks of the folder and of the peers' IPs; a
\* failure is log.Fatal, exit status 1.  The configuration names n peers and a
\* password (the daemon listens) or none.
MainLoadConfig(ok, n, serve) ==
  /\ main.pc = "config"
  /\ IF ok
     THEN main' = [main EXCEPT !.pc = "spawn", !.left = n, !.serve = serve]
     ELSE main' = [main EXCEPT !.pc = "exit", !.code = 1]
  /\ UNCHANGED loop
  /\ StartFrame

\* main, one turn of the loop over the peers: Tunnel.Setup, and unless it
\* failed `go t.Start()`.
MainSpawn(setupOK) ==
  /\ main.pc = "spawn" /\ main.left > 0
  /\ main' = [main EXCEPT !.left = main.left - 1]
  /\ loop' = IF setupOK THEN [LoopOff EXCEPT !.pc = "top"] ELSE loop
  /\ StartFrame

\* main: with a password, server.Start(); its error is dropped and main goes on
\* to `<-done`.  Server.Start returns when net.Listen fails, else it accepts.
MainListen(ok) ==
  /\ main.pc = "spawn" /\ main.left = 0
  /\ main' = IF ~main.serve THEN [main EXCEPT !.pc = "blocked"]
             ELSE IF ok THEN [main EXCEPT !.pc = "serving", !.listen = "ok"]
             ELSE [main EXCEPT !.pc = "blocked", !.listen = "failed"]
  /\ UNCHANGED loop
  /\ StartFrame

\* Server.Start: ln.Accept fails and Start returns; main goes on to `<-done`.
MainAcceptError ==
  /\ main.pc = "serving"
  /\ main' = [main EXCEPT !.pc = "blocked", !.listen = "closed"]
  /\ UNCHANGED loop
  /\ StartFrame

\* main waits on done, which nothing ever sends on.  With no other goroutine
\* in the process the Go runtime ends it ("all goroutines are asleep"), exit
\* status 2; with a tunnel running the process stays.
MainDeadlock ==
  /\ main.pc = "blocked" /\ loop.pc = "off"
  /\ main' = [main EXCEPT !.pc = "exit", !.code = 2]
  /\ UNCHANGED loop
  /\ StartFrame

\* Tunnel.Start, top of the loop: close the current connection if there is
\* one, then enter createConnections (firstLoop := false, currentSleepTime := 3).
StartTop ==
  /\ Running /\ loop.pc = "top"
  /\ loop' = [loop EXCEPT !.pc = "retry",
                          !.conn = IF loop.conn = "nil" THEN "nil" ELSE "closed",
                          !.open = IF loop.conn = "open" THEN loop.open - 1 ELSE loop.open,
                          !.firstLoop = FALSE,
                          !.currentSleepTime = startSleepTime,
                          !.first = TRUE]
  /\ UNCHANGED main
  /\ StartFrame

\* The sleep createConnections takes before a dial.
SleepBeforeDial(firstLoop, currentSleepTime) ==
  IF ~firstLoop THEN currentSleepTime ELSE 0

\* createConnections, one turn of its loop up to the dial: unless firstLoop,
\* sleep and lengthen the next sleep up to the cap.
CreateSleep ==
  /\ Running /\ loop.pc = "retry"
  /\ loop' = [loop EXCEPT
        !.pc = "dial",
        !.prev = loop.waited,
        !.waited = SleepBeforeDial(loop.firstLoop, loop.currentSleepTime),
        !.currentSleepTime =
            IF loop.firstLoop THEN loop.currentSleepTime
            ELSE IF loop.currentSleepTime + sleepTimeInc > maxSleepTime THEN maxSleepTime
            ELSE loop.currentSleepTime + sleepTimeInc,
        !.firstLoop = FALSE]
  /\ UNCHANGED main
  /\ StartFrame

\* createConnections, net.Dial: on an error `continue`, else the connection
\* is kept in t.conn and createConnections returns.
CreateDial(ok) ==
  /\ Running /\ loop.pc = "dial"
  /\ loop' = IF ok
             THEN [loop EXCEPT !.pc = "handshake", !.conn = "open", !.open = loop.open + 1]
             ELSE [loop EXCEPT !.pc = "retry", !.after = "dial failed", !.first = FALSE]
  /\ UNCHANGED main
  /\ StartFrame

\* Tunnel.Start: doHandshake returns nil when the passwords agree and no read
\* or write failed; on its error `continue`.
StartHandshake(io) ==
  /\ Running /\ loop.pc = "handshake"
  /\ loop' = IF pwA = pwB /\ io
             THEN [loop EXCEPT !.pc = "watch"]
             ELSE [loop EXCEPT !.pc = "top", !.after = "handshake failed"]
  /\ UNCHANGED main
  /\ StartFrame

\* Tunnel.Start: Watch returns an error (of the bootstrap or of a later
\* event); `continue`.
StartWatchError ==
  /\ Running /\ loop.pc = "watch"
  /\ loop' = [loop EXCEPT !.pc = "top", !.after = "watch error"]
  /\ UNCHANGED main
  /\ StartFrame

\* Inside Watch, Tunnel.handleEventCreate with an os.Stat error that is not
\* not-exist: fi is nil, fi.IsDir() panics and the process ends, exit status 2.
StartWatchPanic ==
  /\ Running /\ loop.pc = "watch"
  /\ loop' = [loop EXCEPT !.pc = "crashed"]
  /\ main' = [main EXCEPT !.pc = "exit", !.code = 2]
  /\ StartFrame

NextStart ==
  \/ \E ok \in BOOLEAN, n \in ConfigPeers, serve \in BOOLEAN : MainLoadConfig(ok, n, serve)
  \/ \E setupOK \in BOOLEAN : MainSpawn(setupOK)
  \/ \E ok \in BOOLEAN : MainListen(ok)
  \/ MainAcceptError
  \/ MainDeadlock
  \/ StartTop
  \/ CreateSleep
  \/ \E ok \in BOOLEAN : CreateDial(ok)
  \/ \E io \in BOOLEAN : StartHandshake(io)
  \/ StartWatchError
  \/ StartWatchPanic

InitStart == Init /\ fsB = EmptyTree

SpecStart == InitStart /\ [][NextStart]_vars

\* -------------------------------------------- the encrypted connection
\* This specification follows one direction of an EncryptedConnection byte by
\* byte: the tunnel of A writes messages with WriteEncryptedFull, the handler
\* of B reads them with ReadEncryptedFull, each end with the keys derived from
\* its own password.
MaxMsgs   == 2     \* messages written on the connection
MaxMsgLen == 1     \* length of the short messages

\* encoding/binary.MaxVarintLen64 and aes.BlockSize
MaxVarintLen64 == 10
BlockSize == 16

\* A message of 130 bytes: a length from 128 on takes two bytes as a varint.
LongMsg == [i \in 1..130 |-> i]

MsgBytes == {200}
Msgs == UNION { [1..n -> MsgBytes] : n \in 0..MaxMsgLen } \cup { LongMsg }

\* rand.Read(e.IV[:]): the 16 bytes of an IV, one IV per seed.
IVSeeds == {1, 2}
IV(seed) == [j \in 1..BlockSize |-> ((seed * j) % 256)]

\* DeriveKeys: two keys decided by the password, each kept as one number.
DeriveKeys(masterKey) ==
  LET h == CASE masterKey = "foo" -> 5 [] masterKey = "bar" -> 9 [] OTHER -> 1
  IN  [cipherKey |-> (3 * h + 1) % 256, macKey |-> (5 * h + 2) % 256]

\* binary.PutUvarint: seven bits a byte, low bits first, the high bit set on
\* every byte but the last.
RECURSIVE PutUvarint(_)
PutUvarint(x) ==
  IF x < 128 THEN <<x>> ELSE <<((x % 128) + 128)>> \o PutUvarint(x \div 128)

\* Connection.WriteLength: the varint at the start of a zeroed buffer of
\* MaxVarintLen64 bytes, the whole of which is written.
WriteLength(l) ==
  PutUvarint(l) \o [i \in 1..(MaxVarintLen64 - Len(PutUvarint(l))) |-> 0]

\* binary.Uvarint from byte i on: the value and the number of bytes read, 0
\* when the buffer ends inside the number, negative on overflow.
RECURSIVE UvarintFrom(_, _, _, _)
UvarintFrom(buf, i, x, mult) ==
  IF i > Len(buf) THEN [value |-> 0, n |-> 0]
  ELSE IF buf[i] < 128
         THEN IF i = MaxVarintLen64 /\ buf[i] > 1
              THEN [value |-> 0, n |-> 0 - i]
              ELSE [value |-> x + buf[i] * mult, n |-> i]
  ELSE UvarintFrom(buf, i + 1, x + (buf[i] - 128) * mult, mult * 128)

\* Connection.ReadLength on the MaxVarintLen64 bytes it has read.
ReadLength(lenData) ==
  LET u == UvarintFrom(lenData, 1, 0, 1)
  IN  [l |-> u.value, err |-> u.n <= 0]

RECURSIVE XorBits(_, _, _)
XorBits(a, b, n) ==
  IF n = 0 THEN 0
  ELSE (((a % 2) + (b % 2)) % 2) + 2 * XorBits(a \div 2, b \div 2, n - 1)

\* The sum of bytes lo..hi of s, by halves.
RECURSIVE SumBytes(_, _, _)
SumBytes(s, lo, hi) ==
  IF lo > hi THEN 0
  ELSE IF lo = hi THEN s[lo]
  ELSE SumBytes(s, lo, (lo + hi) \div 2) + SumBytes(s, ((lo + hi) \div 2) + 1, hi)

\* cipher.NewOFB(block, iv): byte i of the key stream, decided by the key, the
\* IV and the position.
KeyStream(key, iv, i) == (31 * key + 17 * SumBytes(iv, 1, Len(iv)) + 7 * i + 3) % 256

\* A decrypting stream that hands the bytes on as they come.
DecryptStreamPlain(key, iv, data) == data

\* NewDecryptStream + cipher.StreamReader.Read: XOR with the key stream.
DecryptStream(key, iv, data) ==
  [i \in 1..Len(data) |-> XorBits(data[i], KeyStream(key, iv, i), 8)]

\* NewEncryptStream + cipher.StreamWriter.Write: XOR with the key stream.
EncryptStream(key, iv, data) ==
  [i \in 1..Len(data) |-> XorBits(data[i], KeyStream(key, iv, i), 8)]

\* The sum over bytes lo..hi of data of (byte + 1) * (position + j), by halves.
RECURSIVE WeightedSum(_, _, _, _)
WeightedSum(data, j, lo, hi) ==
  IF lo > hi THEN 0
  ELSE IF lo = hi THEN (data[lo] + 1) * (lo + j)
  ELSE WeightedSum(data, j, lo, (lo + hi) \div 2)
       + WeightedSum(data, j, ((lo + hi) \div 2) + 1, hi)

\* NewHMAC(key) fed data, mac.Sum(nil): HASH_SIZE bytes decided by the key and
\* the data.
HMAC(key, data) ==
  [j \in 1..HASH_SIZE |-> (key + 13 * j + WeightedSum(data, j, 1, Len(data))) % 256]

ConstantTimeCompare(h1, h2) == h1 = h2

Take(bytes, k) == SubSeq(bytes, 1, k)
Rest(bytes, k) == SubSeq(bytes, k + 1, Len(bytes))

\* bufio.NewWriter(&b): the size of its buffer.
defaultBufSize == 4096

\* bufio.Writer.ReadFrom as io.CopyN calls it on the writer that
\* ReadEncryptedFull puts around its bytes.Buffer: with nothing buffered the
\* bytes go straight to the bytes.Buffer (its own ReadFrom); otherwise they
\* fill the buffer, which is flushed each time it is full.  ReadEncryptedFull
\* never calls Flush and returns b.Bytes().
BufioReadFrom(b, buffered, data) ==
  IF buffered = <<>>
  THEN [b |-> b \o data, buffered |-> <<>>]
  ELSE LET all == buffered \o data
           k   == (Len(all) \div defaultBufSize) * defaultBufSize
       IN  [b |-> b \o Take(all, k), buffered |-> Rest(all, k)]

WireFrame ==
  UNCHANGED <<now, fsA, fsB, delA, delB, pwA, pwB, conn, c2s, s2c, tun, srv,
              events, watched, sent, last, ops, conns, thr, main, loop, np, ev, mu>>

\* WriteEncryptedFull(m) -> WriteEncryptedStream: a fresh IV, then the length.
WireWriteLength(m, seed) ==
  /\ wire.w.pc = "idle" /\ Len(wire.wrote) < MaxMsgs
  /\ wire' = [wire EXCEPT !.bytes = @ \o WriteLength(Len(m)),
                          !.w = [pc |-> "iv", msg |-> m, iv |-> IV(seed)]]
  /\ WireFrame

\* WriteEncryptedStream: c.Write(encStream.IV[:])
WireWriteIV ==
  /\ wire.w.pc = "iv"
  /\ wire' = [wire EXCEPT !.bytes = @ \o wire.w.iv, !.w.pc = "data"]
  /\ WireFrame

\* WriteEncryptedStream: io.Copy(encStream, tee), the ciphertext.
WireWriteData ==
  /\ wire.w.pc = "data"
  /\ wire' = [wire EXCEPT
        !.bytes = @ \o EncryptStream(DeriveKeys(pwA).cipherKey, wire.w.iv, wire.w.msg),
        !.w.pc = "mac"]
  /\ WireFrame

\* WriteEncryptedStream: c.Write(macSum), the MAC of the plaintext.
WireWriteMAC ==
  /\ wire.w.pc = "mac"
  /\ wire' = [wire EXCEPT !.bytes = @ \o HMAC(DeriveKeys(pwA).macKey, wire.w.msg),
                          !.wrote = Append(@, wire.w.msg),
                          !.w = WireStart.w]
  /\ WireFrame

\* The reader goes on as long as no call has returned an error.
ReaderOpen == \A i \in 1..Len(wire.got) : ~wire.got[i].err

\* ReadEncryptedFull -> ReadEncryptedStream: ReadLength, blocking for its bytes.
WireReadLength ==
  /\ wire.r.pc = "length" /\ ReaderOpen /\ Len(wire.got) < MaxMsgs
  /\ Len(wire.bytes) >= MaxVarintLen64
  /\ LET u == ReadLength(Take(wire.bytes, MaxVarintLen64))
     IN  wire' = IF u.err
                 THEN [wire EXCEPT !.bytes = Rest(@, MaxVarintLen64),
                                   !.got = Append(@, [data |-> <<>>, err |-> TRUE,
                                                      n |-> MaxVarintLen64])]
                 ELSE [wire EXCEPT !.bytes = Rest(@, MaxVarintLen64),
                                   !.r = [pc |-> "iv", size |-> u.l, iv |-> <<>>,
                                          buf |-> <<>>, buffered |-> <<>>,
                                          plain |-> <<>>, n |-> MaxVarintLen64]]
  /\ WireFrame

\* ReadEncryptedStream: ReadIV
WireReadIV ==
  /\ wire.r.pc = "iv"
  /\ Len(wire.bytes) >= BlockSize
  /\ wire' = [wire EXCEPT !.bytes = Rest(@, BlockSize),
                          !.r.iv = Take(wire.bytes, BlockSize),
                          !.r.n = @ + BlockSize,
                          !.r.pc = "data"]
  /\ WireFrame

\* ReadEncryptedStream: io.CopyN(target, tee, size), the plaintext into the
\* buffer of ReadEncryptedFull.
WireReadData ==
  /\ wire.r.pc = "data"
  /\ Len(wire.bytes) >= wire.r.size
  /\ LET plain == DecryptStream(DeriveKeys(pwB).cipherKey, wire.r.iv,
                                Take(wire.bytes, wire.r.size))
         w == BufioReadFrom(wire.r.buf, wire.r.buffered, plain)
     IN  wire' = [wire EXCEPT !.bytes = Rest(@, wire.r.size),
                              !.r.buf = w.b,
                              !.r.buffered = w.buffered,
                              !.r.plain = plain,
                              !.r.n = @ + wire.r.size,
                              !.r.pc = "mac"]
  /\ WireFrame

\* ReadEncryptedStream: ReadMAC and the comparison; ReadEncryptedFull returns
\* the buffer and the error.
WireReadMAC ==
  /\ wire.r.pc = "mac"
  /\ Len(wire.bytes) >= HASH_SIZE
  /\ wire' = [wire EXCEPT
        !.bytes = Rest(@, HASH_SIZE),
        !.got = Append(@, [data |-> wire.r.buf,
                           err |-> ~ConstantTimeCompare(Take(wire.bytes, HASH_SIZE),
                                        HMAC(DeriveKeys(pwB).macKey, wire.r.plain)),
                           n |-> wire.r.n + HASH_SIZE]),
        !.r = WireStart.r]
  /\ WireFrame

NextWire ==
  \/ \E m \in Msgs, seed \in IVSeeds : WireWriteLength(m, seed)
  \/ WireWriteIV
  \/ WireWriteData
  \/ WireWriteMAC
  \/ WireReadLength
  \/ WireReadIV
  \/ WireReadData
  \/ WireReadMAC

\* Two ends with the same keys.
InitWire == Init /\ fsB = EmptyTree /\ pwA = pwB

SpecWire == InitWire /\ [][NextWire]_vars

\* ------------------------------------- the inbound server without ping
\* This specification follows Server.Start of src/cmd/server.go on B: the
\* accept loop, one handler for each connection, and a local program that
\* writes old.txt holding the lock on it.  A client is what a handler reads:
\* each read draws the next frame from the frames a client can send.  The
\* clock moves with the writes of the local program only.
NoPingFrame ==
  UNCHANGED <<fsA, delA, pwA, pwB, conn, c2s, s2c, tun, srv, events, watched,
              sent, last, conns, thr, main, loop, wire, ev, mu>>

\* The file a local program of B works on, and the one every lock is on.
LockedPath == <<"old.txt">>

\* What a read of the handler's request loop can yield: a request of one of
\* the five types, a frame that is no JSON, a frame whose MAC does not match,
\* or a read error.
ReqModTimes == {3, 5}
ClientFrames ==
  { Req(REQ_TYPE_UPDATE, <<"old.txt">>, m, 0) : m \in ReqModTimes } \cup
  { Req(REQ_TYPE_UPDATE_PING, <<"old.txt">>, 0, 0),
    Req(REQ_TYPE_CREATE_FILE, <<"new.txt">>, 3, 0),
    Req(REQ_TYPE_CREATE_DIR, <<"sub">>, 3, 0),
    Req(REQ_TYPE_DELETE, <<"old.txt">>, 0, 5),
    [kind |-> "junk"], [kind |-> "badmac"], [kind |-> "ioerr"] }

\* A return that takes every other connection and the listener with it.
NPCloseAll(c, why) ==
  [np EXCEPT !.h = [d \in InboundConns |->
                       IF np.h[d].pc = "off" THEN np.h[d]
                       ELSE [NPOff EXCEPT !.pc = "closed", !.why = why]],
             !.ln = "closed",
             !.lock = IF np.lock \in InboundConns THEN "none" ELSE np.lock]

\* The return of Server.handleConnection of connection c: the deferred calls
\* unlock and close the target and close the connection.
NPClose(c, why) ==
  [np EXCEPT !.h[c] = [NPOff EXCEPT !.pc = "closed", !.why = why],
             !.lock = IF np.lock = c THEN "none" ELSE np.lock]

\* Server.Start: net.Listen; on its error Start returns.
NPListen(ok) ==
  /\ np.ln = "off"
  /\ np' = [np EXCEPT !.ln = IF ok THEN "listening" ELSE "failed"]
  /\ UNCHANGED <<now, fsB, delB, ops>>
  /\ NoPingFrame

\* Server.Start: ln.Accept and `go s.handleConnection(c)`.
NPAccept(c) ==
  /\ np.ln = "listening"
  /\ np.h[c].pc \in {"off", "closed"}
  /\ np' = [np EXCEPT !.h[c] = [NPOff EXCEPT !.pc = "handshake"]]
  /\ UNCHANGED <<now, fsB, delB, ops>>
  /\ NoPingFrame

\* Server.Start: ln.Accept fails and Start returns; the handlers go on.
NPAcceptError ==
  /\ np.ln = "listening"
  /\ np' = [np EXCEPT !.ln = "closed"]
  /\ UNCHANGED <<now, fsB, delB, ops>>
  /\ NoPingFrame

\* Server.handleConnection: doHandshake, and on its error return.
NPHandshake(c, ok) ==
  /\ np.h[c].pc = "handshake"
  /\ np' = IF ok THEN [np EXCEPT !.h[c].pc = "generic"]
           ELSE NPClose(c, "handshake failed")
  /\ UNCHANGED <<now, fsB, delB, ops>>
  /\ NoPingFrame

\* Server.handleCreateDir
HandleCreateDir(fs, req, t) ==
  LET p  == Fqpath(req.relPath)
      st == Stat(fs, p)
  IN  IF st = "error" THEN [fs |-> fs, err |-> TRUE, what |-> "error"]
      ELSE IF st = "ok" THEN [fs |-> fs, err |-> FALSE, what |-> "exists"]
      ELSE [fs |-> Chtimes(MkdirAll(fs, p, t), p, req.modTime),
            err |-> FALSE, what |-> "mkdir"]

\* Server.handleRequests: the cases of its switch.
Dispatched == {REQ_TYPE_UPDATE, REQ_TYPE_CREATE_DIR, REQ_TYPE_DELETE}

\* Server.handleUpdate, the first check: the target is absent or older.
SendFile(fs, p, modTime) == Stat(fs, p) = "notexist" \/ fs[p].mtime < modTime

\* Server.handleRequests, one turn of the loop: read a frame, decode it,
\* dispatch on its type.  For an UPDATE this is handleUpdate up to its
\* response; wr says whether the write of the response succeeds.
NPRequest(c, m, wr) ==
  /\ np.h[c].pc = "generic"
  /\ UNCHANGED ops
  /\ NoPingFrame
  /\ CASE m.kind = "ioerr" ->
            np' = NPClose(c, "read error") /\ UNCHANGED <<now, fsB, delB>>
       [] m.kind = "badmac" ->
            np' = NPClose(c, "hashes do not match") /\ UNCHANGED <<now, fsB, delB>>
       [] m.kind = "junk" ->
            np' = NPClose(c, "json") /\ UNCHANGED <<now, fsB, delB>>
       [] m.kind = "req" /\ m.reqType \notin Dispatched ->
            /\ np' = [NPClose(c, "Unknown request type") EXCEPT !.h[c].bad = m.reqType]
            /\ UNCHANGED <<now, fsB, delB>>
       [] m.kind = "req" /\ m.reqType \in Dispatched /\ m.reqType = REQ_TYPE_CREATE_DIR ->
            LET r == HandleCreateDir(fsB, m, now)
            IN  /\ fsB' = r.fs
                /\ now' = now
                /\ np' = IF r.err THEN NPClose(c, "create failed") ELSE np
                /\ UNCHANGED delB
       [] m.kind = "req" /\ m.reqType \in Dispatched /\ m.reqType = REQ_TYPE_DELETE ->
            LET r == HandleDelete(fsB, delB, m, now)
            IN  /\ fsB' = r.fs
                /\ delB' = r.tab
                /\ now' = now
                /\ np' = IF r.err THEN NPClose(c, "delete failed") ELSE np
       [] m.kind = "req" /\ m.reqType \in Dispatched
             /\ m.reqType \notin {REQ_TYPE_CREATE_DIR, REQ_TYPE_DELETE} ->
            LET p == Fqpath(m.relPath)
            IN  /\ UNCHANGED <<now, fsB, delB>>
                /\ np' = IF Stat(fsB, p) = "error" \/ ~wr
                         THEN NPClose(c, "update failed")
                         ELSE IF SendFile(fsB, p, m.modTime)
                         THEN [np EXCEPT !.h[c].pc = "body", !.h[c].relPath = p,
                                         !.h[c].modTime = m.modTime]
                         ELSE np

\* Server.handleUpdate: ReadEncryptedStream into the temp file.  On an error
\* the deferred func removes the temp file.
NPBody(c, out) ==
  /\ np.h[c].pc = "body"
  /\ np' = IF out = "ok"
           THEN [np EXCEPT !.h[c].pc = "recheck", !.h[c].temp = <<7>>]
           ELSE NPClose(c, out)
  /\ UNCHANGED <<now, fsB, delB, ops>>
  /\ NoPingFrame

\* Server.handleUpdate after the transfer: the second os.Stat.  Not there:
\* os.Create.  There and not older than the request: return nil.  There and
\* older: os.OpenFile.
NPRecheck(c) ==
  /\ np.h[c].pc = "recheck"
  /\ LET p  == np.h[c].relPath
         st == Stat(fsB, p)
     IN  CASE st = "error" ->
                np' = NPClose(c, "stat failed") /\ UNCHANGED <<now, fsB>>
           [] st = "notexist" /\ ~IsDir(fsB, Parent(p)) ->
                np' = NPClose(c, "create failed") /\ UNCHANGED <<now, fsB>>
           [] st = "notexist" /\ IsDir(fsB, Parent(p)) ->
                /\ fsB' = TouchParent([fsB EXCEPT ![p] = FileNode(<<>>, now)], p, now)
                /\ now' = now
                /\ np' = [np EXCEPT !.h[c].pc = "lock", !.h[c].created = TRUE,
                                    !.h[c].seen = NoNode]
           [] st = "ok" /\ ~(fsB[p].mtime < np.h[c].modTime) ->
                /\ np' = [np EXCEPT !.h[c] = [NPOff EXCEPT !.pc = "generic",
                                                           !.why = "refused"]]
                /\ UNCHANGED <<now, fsB>>
           [] st = "ok" /\ fsB[p].mtime < np.h[c].modTime /\ fsB[p].kind = "dir" ->
                np' = NPClose(c, "open failed") /\ UNCHANGED <<now, fsB>>
           [] st = "ok" /\ fsB[p].mtime < np.h[c].modTime /\ fsB[p].kind = "file" ->
                /\ np' = [np EXCEPT !.h[c].pc = "lock", !.h[c].seen = fsB[p]]
                /\ UNCHANGED <<now, fsB>>
  /\ UNCHANGED <<delB, ops>>
  /\ NoPingFrame

\* Server.handleUpdate: lf.RWLock() waits until nobody holds a lock.
NPLock(c) ==
  /\ np.h[c].pc = "lock"
  /\ np.lock = "none"
  /\ np' = [np EXCEPT !.h[c].pc = "resolve", !.lock = c]
  /\ UNCHANGED <<now, fsB, delB, ops>>
  /\ NoPingFrame

\* Server.handleUpdate under the lock: Truncate, io.Copy from the temp file,
\* os.Chtimes; then the deferred unlock.  os.Chtimes fails when the path is
\* gone (a DELETE of another connection took it).
NPResolve(c) ==
  /\ np.h[c].pc = "resolve"
  /\ LET p == np.h[c].relPath
     IN  IF IsFile(fsB, p)
         THEN /\ fsB' = Swap(fsB, p, np.h[c].temp, np.h[c].modTime)
              /\ np' = [np EXCEPT !.h[c] = [NPOff EXCEPT !.pc = "generic",
                                                         !.why = "updated"],
                                  !.lock = "none"]
         ELSE /\ fsB' = fsB
              /\ np' = NPClose(c, "chtimes failed")
  /\ UNCHANGED <<now, delB, ops>>
  /\ NoPingFrame

\* A local program of B takes the lock on old.txt before it writes it.
NPWriterLock ==
  /\ np.writer = "idle" /\ np.lock = "none"
  /\ ops < MaxLocalOps
  /\ IsFile(fsB, LockedPath)
  /\ np' = [np EXCEPT !.writer = "locked", !.lock = "writer"]
  /\ UNCHANGED <<now, fsB, delB, ops>>
  /\ NoPingFrame

\* It writes the file, which stamps it with the clock, and unlocks.
NPWriterWrite ==
  /\ np.writer = "locked"
  /\ fsB' = IF IsFile(fsB, LockedPath)
            THEN [fsB EXCEPT ![LockedPath] = FileNode(<<8>>, now)] ELSE fsB
  /\ now' = now + 1
  /\ ops' = ops + 1
  /\ np' = [np EXCEPT !.writer = "idle", !.lock = "none"]
  /\ UNCHANGED delB
  /\ NoPingFrame

NextNoPing ==
  \/ \E ok \in BOOLEAN : NPListen(ok)
  \/ \E c \in InboundConns : NPAccept(c)
  \/ NPAcceptError
  \/ \E c \in InboundConns, ok \in BOOLEAN : NPHandshake(c, ok)
  \/ \E c \in InboundConns, m \in ClientFrames, wr \in BOOLEAN : NPRequest(c, m, wr)
  \/ \E c \in InboundConns, out \in {"ok", "hashes do not match", "read error"} :
        NPBody(c, out)
  \/ \E c \in InboundConns : NPRecheck(c)
  \/ \E c \in InboundConns : NPLock(c)
  \/ \E c \in InboundConns : NPResolve(c)
  \/ NPWriterLock
  \/ NPWriterWrite

InitNoPing == Init /\ pwA = pwB

SpecNoPing == InitNoPing /\ [][NextNoPing]_vars

\* ------------------------------------------------ one event at a time
\* This specification follows Tunnel.WatchHandler through one call of
\* handleEvent after another.  The event is drawn from names inside and
\* outside the root and from every combination of the flags of fsnotify.Op;
\* the outcomes of os.Stat, os.OpenFile and of the reads and writes on the
\* connection are drawn at the calls.
EventFrame ==
  UNCHANGED <<now, fsA, fsB, delB, pwA, pwB, conn, c2s, s2c, tun, srv, events,
              watched, sent, last, ops, conns, thr, main, loop, wire, np, mu>>

\* t.Root, and the names of events: a name is the tuple of its components.
Root == <<"root">>
EventNames ==
  { <<"root", "old.txt">>, <<"root", "sub">>,
    <<"other", "old.txt">>,
    <<"root", ".", "old.txt">>, <<"root", "sub", "..", "old.txt">>,
    <<"root">>, <<"root", ".">> }

\* fsnotify.Op is a bit set.
OpFlags == {"CREATE", "WRITE", "REMOVE", "RENAME", "CHMOD"}

\* strings.TrimPrefix(e.Name, t.Root)
TrimPrefix(name, prefix) ==
  IF IsPrefix(prefix, name) THEN SubSeq(name, Len(prefix) + 1, Len(name)) ELSE name

\* A dispatch that looks at CREATE before REMOVE and RENAME.
RouteCreateFirst(name, op) ==
  LET relPath == TrimPrefix(name, Root)
  IN  IF relPath = name THEN "nil"
      ELSE IF Clean(relPath) # relPath THEN "Path not clean"
      ELSE IF Clean(relPath) = <<>> \/ Clean(relPath) = <<".">> THEN "nil"
      ELSE IF "CREATE" \in op THEN "create"
      ELSE IF "REMOVE" \in op \/ "RENAME" \in op THEN "delete"
      ELSE IF "WRITE" \in op THEN "update"
      ELSE "nil"

\* Tunnel.handleEvent up to the dispatch: where the event goes.
Route(name, op) ==
  LET relPath == TrimPrefix(name, Root)
  IN  IF relPath = name THEN "nil"
      ELSE IF Clean(relPath) # relPath THEN "Path not clean"
      ELSE IF Clean(relPath) = <<>> \/ Clean(relPath) = <<".">> THEN "nil"
      ELSE IF "REMOVE" \in op \/ "RENAME" \in op THEN "delete"
      ELSE IF "CREATE" \in op THEN "create"
      ELSE IF "WRITE" \in op THEN "update"
      ELSE "nil"

\* Tunnel.WatchHandler: the next event of watcher.Events.
EvTake(name, op) ==
  /\ ev.pc = "idle"
  /\ ev' = [EventStart EXCEPT !.pc = "route", !.name = name, !.op = op]
  /\ UNCHANGED delA
  /\ EventFrame

\* Tunnel.handleEvent
EvRoute ==
  /\ ev.pc = "route"
  /\ LET r == Route(ev.name, ev.op)
     IN  ev' = IF r \in {"delete", "create", "update"}
               THEN [ev EXCEPT !.pc = r, !.relPath = TrimPrefix(ev.name, Root)]
               ELSE [ev EXCEPT !.pc = "return", !.ret = r]
  /\ UNCHANGED delA
  /\ EventFrame

\* A write of a request on the connection: sent, or the error of the write.
EvWrite(m, wr, next) ==
  IF wr THEN [ev EXCEPT !.sent = Append(@, m), !.pc = next,
                        !.ret = IF next = "return" THEN "nil" ELSE @]
  ELSE [ev EXCEPT !.pc = "return", !.ret = "write error"]

\* Tunnel.handleEventDelete
EvDelete(wr) ==
  /\ ev.pc = "delete"
  /\ delA' = IF ev.relPath \in DOMAIN delA THEN delA ELSE TablePut(delA, ev.relPath, now)
  /\ ev' = EvWrite(Req(REQ_TYPE_DELETE, ev.relPath, 0, DelTimeFor(delA, ev.relPath, now)),
                   wr, "return")
  /\ EventFrame

\* What os.Stat can say of the path of a CREATE event, with the mod time of
\* what it found.
StatOutcomes == {"file", "dir", "notexist", "error"}

\* Tunnel.handleEventCreate
EvCreate(st, wr) ==
  /\ ev.pc = "create"
  /\ delA' = TableDelete(delA, ev.relPath)
  /\ ev' = CASE st = "notexist" ->
                  [ev EXCEPT !.pc = "return", !.ret = "nil", !.stat = st]
             [] st = "error" ->
                  [ev EXCEPT !.pc = "return", !.ret = "panic", !.stat = st]
             [] st = "dir" ->
                  [EvWrite(Req(REQ_TYPE_CREATE_DIR, ev.relPath, now, 0), wr, "return")
                     EXCEPT !.added = @ \cup {ev.name}, !.stat = st]
             [] st = "file" ->
                  [EvWrite(Req(REQ_TYPE_CREATE_FILE, ev.relPath, now, 0), wr, "return")
                     EXCEPT !.stat = st]
  /\ EventFrame

\* Tunnel.handleEventUpdate: the ping.
EvPing(wr) ==
  /\ ev.pc = "update"
  /\ delA' = TableDelete(delA, ev.relPath)
  /\ ev' = EvWrite(Req(REQ_TYPE_UPDATE_PING, ev.relPath, 0, 0), wr, "ping_resp")
  /\ EventFrame

\* Tunnel.handleEventUpdate: the response to the ping, then open, read-lock
\* and stat the local file and write UPDATE.  A file that cannot be opened
\* ends the handler with nil.
EvPingResp(r, open, wr) ==
  /\ ev.pc = "ping_resp"
  /\ ev' = CASE r = "read error" -> [ev EXCEPT !.pc = "return", !.ret = r]
             [] r = "not ok" -> [ev EXCEPT !.pc = "return", !.ret = "Update ping failed."]
             [] r = "pingOK" /\ ~open -> [ev EXCEPT !.pc = "return", !.ret = "nil"]
             [] r = "pingOK" /\ open ->
                  EvWrite(Req(REQ_TYPE_UPDATE, ev.relPath, now, 0), wr, "upd_resp")
  /\ UNCHANGED delA
  /\ EventFrame

\* Tunnel.handleEventUpdate: the response to UPDATE, and the body when asked.
EvUpdResp(r, wr) ==
  /\ ev.pc = "upd_resp"
  /\ ev' = CASE r = "read error" -> [ev EXCEPT !.pc = "return", !.ret = r]
             [] r = "no send" -> [ev EXCEPT !.pc = "return", !.ret = "nil"]
             [] r = "send" -> EvWrite(Body(<<1>>), wr, "return")
  /\ UNCHANGED delA
  /\ EventFrame

\* Tunnel.WatchHandler after handleEvent: on nil the loop takes the next
\* event; an error goes to done and Watch returns, which closes the
\* connection; a panic ends the process.
EvReturn ==
  /\ ev.pc = "return"
  /\ ev' = [ev EXCEPT !.pc = CASE ev.ret = "nil" -> "idle"
                               [] ev.ret = "panic" -> "crashed"
                               [] OTHER -> "stopped"]
  /\ UNCHANGED delA
  /\ EventFrame

\* Tunnel.Start: after Watch returned, dial again and watch anew.
EvRestart ==
  /\ ev.pc = "stopped"
  /\ ev' = EventStart
  /\ UNCHANGED delA
  /\ EventFrame

NextEvent ==
  \/ \E name \in EventNames, op \in SUBSET OpFlags : EvTake(name, op)
  \/ EvRoute
  \/ \E wr \in BOOLEAN : EvDelete(wr)
  \/ \E st \in StatOutcomes, wr \in BOOLEAN : EvCreate(st, wr)
  \/ \E wr \in BOOLEAN : EvPing(wr)
  \/ \E r \in {"pingOK", "not ok", "read error"}, open \in BOOLEAN, wr \in BOOLEAN :
        EvPingResp(r, open, wr)
  \/ \E r \in {"send", "no send", "read error"}, wr \in BOOLEAN : EvUpdResp(r, wr)
  \/ EvReturn
  \/ EvRestart

InitEvent == Init /\ fsB = EmptyTree /\ pwA = pwB

SpecEvent == InitEvent /\ [][NextEvent]_vars

\* ------------------------------------------------------ mutual peers
\* This specification runs two daemons A and B that list each other as peers,
\* each with its tunnel (src/cmd/tunnel.go) to the inbound server with ping
\* (src/unnamed/part_000) of the other, on the one file old.txt.  The network
\* loses nothing.  A daemon's watcher reports what its own handler writes.
MutualFrame ==
  UNCHANGED <<delA, delB, pwA, pwB, conn, c2s, s2c, tun, srv, events, watched,
              sent, last, conns, thr, main, loop, wire, np, ev>>

\* The file both daemons hold, and the most file bodies that are counted.
SharedPath == <<"old.txt">>
MaxTransfers == 3

FS(d) == IF d = "A" THEN fsA ELSE fsB

\* Daemon d's tree becomes fs.
SetFS(d, fs) ==
  /\ fsA' = IF d = "A" THEN fs ELSE fsA
  /\ fsB' = IF d = "B" THEN fs ELSE fsB

\* The watcher of a tunnel that runs reports an event on the file.
Report(m, d, op) ==
  IF m.tun[d].pc = "off" THEN m
  ELSE [m EXCEPT !.evq[d] = Append(@, [path |-> SharedPath, op |-> op])]

\* Daemon d at rest: its tunnel idle with no event left, its handler idle,
\* nothing in flight from or to its tunnel, no lock on its copy.
AtRest(d) ==
  /\ mu.tun[d].pc = "run" /\ mu.evq[d] = <<>>
  /\ mu.hnd[d].pc = "idle"
  /\ mu.req[d] = <<>> /\ mu.resp[d] = <<>>
  /\ mu.lock[d] = "none"

Quiescent == \A d \in Daemons : AtRest(d)

\* Tunnel.Start of d: dial, handshake, and the bootstrap of Watch, a synthetic
\* WRITE for every file ListItems finds.
MuStart(d) ==
  /\ mu.tun[d].pc = "off"
  /\ LET files == ListItems(FS(d), <<>>).files
         t == [mu EXCEPT
                 !.tun[d].pc = "run",
                 !.evq[d] = [i \in 1..Len(files) |-> [path |-> files[i], op |-> "WRITE"]]]
     IN  mu' = IF files = <<>> THEN t
               ELSE [t EXCEPT
                       !.pushed = d,
                       !.clean = /\ AtRest(Peer(d))
                                 /\ mu.hnd[d].pc = "idle"
                                 /\ FS(Peer(d))[SharedPath] \in {NoNode, FS(d)[SharedPath]},
                       !.want = IF FS(Peer(d))[SharedPath] = NoNode THEN 1 ELSE 0,
                       !.bodies = 0]
  /\ UNCHANGED <<now, fsA, fsB, ops>>
  /\ MutualFrame

\* Tunnel.handleEvent of d for the next event: CREATE sends CREATE_FILE for a
\* file that is there; WRITE sends the ping of handleEventUpdate.
MuEvent(d) ==
  /\ mu.tun[d].pc = "run" /\ mu.evq[d] # <<>>
  /\ LET e == Head(mu.evq[d])
         f == FS(d)[e.path]
     IN  mu' = CASE e.op = "CREATE" /\ f.kind = "none" ->
                      [mu EXCEPT !.evq[d] = Tail(@)]
                 [] e.op = "CREATE" /\ f.kind # "none" ->
                      [mu EXCEPT !.evq[d] = Tail(@),
                                 !.req[d] = Append(@, Req(REQ_TYPE_CREATE_FILE, e.path,
                                                          f.mtime, 0))]
                 [] OTHER ->
                      [mu EXCEPT !.evq[d] = Tail(@),
                                 !.req[d] = Append(@, Req(REQ_TYPE_UPDATE_PING, e.path, 0, 0)),
                                 !.tun[d].pc = "ping"]
  /\ UNCHANGED <<now, fsA, fsB, ops>>
  /\ MutualFrame

\* Tunnel.handleEventUpdate of d: the response to the ping, then os.OpenFile;
\* a file that is not there ends the handler with nil.
MuPingReply(d) ==
  /\ mu.tun[d].pc = "ping" /\ mu.resp[d] # <<>>
  /\ mu' = [mu EXCEPT
        !.resp[d] = Tail(@),
        !.tun[d].pc = IF ~Head(mu.resp[d]).pingOK THEN "closed"
                      ELSE IF ~OpenLocal(FS(d), SharedPath) THEN "run"
                      ELSE "rlock"]
  /\ UNCHANGED <<now, fsA, fsB, ops>>
  /\ MutualFrame

\* Tunnel.handleEventUpdate of d: lf.RLock() waits while the handler of d
\* holds the write lock; then lf.Stat and the UPDATE request.
MuRLock(d) ==
  /\ mu.tun[d].pc = "rlock"
  /\ mu.lock[d] # "W"
  /\ mu' = [mu EXCEPT
        !.lock[d] = "R",
        !.tun[d] = [pc |-> "resp", h |-> FS(d)[SharedPath]],
        !.req[d] = Append(@, Req(REQ_TYPE_UPDATE, SharedPath, FS(d)[SharedPath].mtime, 0))]
  /\ UNCHANGED <<now, fsA, fsB, ops>>
  /\ MutualFrame

\* Tunnel.handleEventUpdate of d: the response to UPDATE, the body when it is
\* asked for, and the deferred UnlockAndClose.
MuSendReply(d) ==
  /\ mu.tun[d].pc = "resp" /\ mu.resp[d] # <<>>
  /\ mu' = [mu EXCEPT
        !.resp[d] = Tail(@),
        !.req[d] = IF Head(mu.resp[d]).sendFile THEN Append(@, Body(mu.tun[d].h.data))
                   ELSE @,
        !.lock[d] = "none",
        !.tun[d] = [pc |-> "run", h |-> NoNode]]
  /\ UNCHANGED <<now, fsA, fsB, ops>>
  /\ MutualFrame

\* Server.handleRequests of d, one turn of the loop on the connection of its
\* peer's tunnel: handleCreate for CREATE_FILE; for UPDATE_PING handleUpdate up
\* to its lock (os.Stat, os.OpenFile with O_CREATE).  Any other frame ends the
\* handler.
MuRequest(d) ==
  /\ mu.hnd[d].pc = "idle" /\ mu.req[Peer(d)] # <<>>
  /\ LET m == Head(mu.req[Peer(d)])
         t == [mu EXCEPT !.req[Peer(d)] = Tail(@)]
     IN  CASE IsRequest(m) /\ m.reqType = REQ_TYPE_CREATE_FILE ->
                LET r == HandleCreate(FS(d), m, now)
                IN  /\ SetFS(d, r.fs)
                    /\ mu' = IF r.err THEN [t EXCEPT !.hnd[d].pc = "closed"]
                             ELSE IF r.what = "mkfile" THEN Report(t, d, "CREATE")
                             ELSE t
           [] IsRequest(m) /\ m.reqType = REQ_TYPE_UPDATE_PING ->
                LET r == UpdateOpen(FS(d), m.relPath, now)
                IN  /\ SetFS(d, r.fs)
                    /\ mu' = IF r.err THEN [t EXCEPT !.hnd[d].pc = "closed"]
                             ELSE [(IF r.fexists THEN t ELSE Report(t, d, "CREATE"))
                                     EXCEPT !.hnd[d].pc = "wlock",
                                            !.hnd[d].fexists = r.fexists]
           [] OTHER ->
                /\ UNCHANGED <<fsA, fsB>>
                /\ mu' = [t EXCEPT !.hnd[d].pc = "closed"]
  /\ UNCHANGED <<now, ops>>
  /\ MutualFrame

\* Server.handleUpdate of d: lf.RWLock() waits while anybody holds a lock on
\* the file; then the ping response.
MuWLock(d) ==
  /\ mu.hnd[d].pc = "wlock"
  /\ mu.lock[d] = "none"
  /\ mu' = [mu EXCEPT !.lock[d] = "W",
                      !.hnd[d].pc = "follow",
                      !.resp[Peer(d)] = Append(@, Resp(TRUE, FALSE))]
  /\ UNCHANGED <<now, fsA, fsB, ops>>
  /\ MutualFrame

\* Server.handleUpdate of d: the follow-up, the mod-time check and the
\* response; without a transfer the handler returns and the lock goes.
MuFollowUp(d) ==
  /\ mu.hnd[d].pc = "follow" /\ mu.req[Peer(d)] # <<>>
  /\ LET m == Head(mu.req[Peer(d)])
         t == [mu EXCEPT !.req[Peer(d)] = Tail(@)]
     IN  mu' = IF ~IsRequest(m) \/ m.relPath # SharedPath
               THEN [t EXCEPT !.hnd[d].pc = "closed", !.lock[d] = "none"]
               ELSE IF WantFile(FS(d)[SharedPath].mtime, m.modTime, mu.hnd[d].fexists)
               THEN [t EXCEPT !.hnd[d].pc = "body", !.hnd[d].modTime = m.modTime,
                              !.resp[Peer(d)] = Append(@, Resp(FALSE, TRUE))]
               ELSE [t EXCEPT !.hnd[d] = MutualStart.hnd[d], !.lock[d] = "none",
                              !.resp[Peer(d)] = Append(@, Resp(FALSE, FALSE))]
  /\ UNCHANGED <<now, fsA, fsB, ops>>
  /\ MutualFrame

\* Server.handleUpdate of d: the body into the temp file, then lf.Truncate(0)
\* under the lock.  The watcher of d reports the truncation.
MuBody(d) ==
  /\ mu.hnd[d].pc = "body" /\ mu.req[Peer(d)] # <<>>
  /\ LET m == Head(mu.req[Peer(d)])
         t == [mu EXCEPT !.req[Peer(d)] = Tail(@),
                         !.hnd[d].pc = "swap", !.hnd[d].temp = FrameBytes(m),
                         !.bodies = IF @ < MaxTransfers THEN @ + 1 ELSE @]
     IN  /\ SetFS(d, [FS(d) EXCEPT ![SharedPath] = FileNode(<<>>, now)])
         /\ mu' = Report(t, d, "WRITE")
  /\ UNCHANGED <<now, ops>>
  /\ MutualFrame

\* Server.handleUpdate of d: io.Copy from the temp file and os.Chtimes under
\* the lock, which the return releases.  The watcher of d reports the write.
MuSwap(d) ==
  /\ mu.hnd[d].pc = "swap"
  /\ SetFS(d, Swap(FS(d), SharedPath, mu.hnd[d].temp, mu.hnd[d].modTime))
  /\ mu' = Report([mu EXCEPT !.hnd[d] = MutualStart.hnd[d], !.lock[d] = "none"],
                  d, "WRITE")
  /\ UNCHANGED <<now, ops>>
  /\ MutualFrame

\* The user of d writes the file at a later time than any so far, taking the
\* lock for the write; the watcher of d reports it.
MuLocalWrite(d) ==
  /\ ops < MaxLocalOps
  /\ mu.lock[d] = "none"
  /\ IsFile(FS(d), SharedPath)
  /\ SetFS(d, [FS(d) EXCEPT ![SharedPath] = FileNode(<<now + 1>>, now + 1)])
  /\ now' = now + 1
  /\ ops' = ops + 1
  /\ mu' = [Report(mu, d, "WRITE") EXCEPT
              !.pushed = d, !.clean = Quiescent, !.want = 1, !.bodies = 0]
  /\ MutualFrame

NextMutual ==
  \/ \E d \in Daemons : MuStart(d)
  \/ \E d \in Daemons : MuEvent(d)
  \/ \E d \in Daemons : MuPingReply(d)
  \/ \E d \in Daemons : MuRLock(d)
  \/ \E d \in Daemons : MuSendReply(d)
  \/ \E d \in Daemons : MuRequest(d)
  \/ \E d \in Daemons : MuWLock(d)
  \/ \E d \in Daemons : MuFollowUp(d)
  \/ \E d \in Daemons : MuBody(d)
  \/ \E d \in Daemons : MuSwap(d)
  \/ \E d \in Daemons : MuLocalWrite(d)

\* A holds old.txt alone in its tree; B holds nothing, or a copy of old.txt
\* older than, as old as, or newer than A's.
InitMutual ==
  /\ now = 4
  /\ fsA = [EmptyTree EXCEPT ![SharedPath] = FileNode(<<1>>, 2)]
  /\ fsB \in InitTreesB
  /\ delA = NoTable /\ delB = NoTable
  /\ pwA = "bar" /\ pwB = "bar"
  /\ conn = NoConn /\ c2s = <<>> /\ s2c = <<>>
  /\ tun = TunIdle /\ srv = SrvIdle
  /\ events = <<>> /\ watched = {} /\ sent = <<>> /\ last = Nothing
  /\ ops = 0 /\ conns = 0
  /\ thr = ThrStart /\ main = MainStart /\ loop = LoopOff
  /\ wire = WireStart /\ np = NoPingStart /\ ev = EventStart
  /\ mu = MutualStart

SpecMutual == InitMutual /\ [][NextMutual]_vars

\* The steps of the two daemons, without those of their users.
MutualSteps ==
  \E d \in Daemons :
    \/ MuStart(d) \/ MuEvent(d) \/ MuPingReply(d) \/ MuRLock(d) \/ MuSendReply(d)
    \/ MuRequest(d) \/ MuWLock(d) \/ MuFollowUp(d) \/ MuBody(d) \/ MuSwap(d)

\* Both daemons keep running: a goroutine that can take a step takes one.
SpecMutualFair == SpecMutual /\ WF_vars(MutualSteps)

\* ================================================================ properties
\* C1. Last-writer-wins on UPDATE.  For a target that existed before the
\* UPDATE_PING: when the handler answers the follow-up, it answers
\* sendFile = false and leaves the tree alone if the target's mod time is at
\* or after the follow-up's modTime, and answers sendFile = true if it is
\* strictly before; the target stays as it was while the body is read, and once
\* the body has been read the target holds exactly the bytes of the body frame
\* and the modTime of the follow-up.
C1_UpdateLastWriterWins ==
  [][ LET p == srv.relPath
          m == Head(c2s)
      IN  /\ (srv.pc = "upd_follow" /\ srv.fexists /\ srv'.pc \in {"generic", "upd_body"})
                => /\ fsB' = fsB
                   /\ IF fsB[p].mtime >= m.modTime
                      THEN /\ s2c' = Append(s2c, Resp(FALSE, FALSE))
                           /\ srv'.pc = "generic"
                      ELSE /\ s2c' = Append(s2c, Resp(FALSE, TRUE))
                           /\ srv'.pc = "upd_body"
                           /\ srv'.reqMod = m.modTime
          /\ (srv.pc = "upd_body" /\ srv.fexists /\ srv'.pc = "upd_body") => fsB' = fsB
          /\ (srv.pc = "upd_body" /\ srv.fexists /\ srv'.pc = "generic")
                => /\ fsB'[p] = FileNode(FrameBytes(m), srv.reqMod)
                   /\ \A q \in Paths \ {p} : fsB'[q] = fsB[q]
    ]_vars

\* The body of an older target that existed before the ping is being received.
C1_Witness ==
  /\ srv.pc = "upd_body" /\ srv.fexists
  /\ srv.before.kind = "file" /\ srv.before.mtime < srv.reqMod
  /\ srv.temp # <<>>

\* C2. Last-writer-wins on DELETE.  When the handler takes a DELETE from the
\* connection: if the target exists with a mod time strictly before delTime,
\* the path and everything beneath it are gone afterwards, nothing else is
\* removed or rewritten, and the table maps relPath to delTime with its other
\* entries as they were; if the target exists with a mod time at or after
\* delTime, or does not exist, the tree and the table are unchanged; in each
\* case the handler returns to the request loop without an error.
C2_DeleteLastWriterWins ==
  [][ (/\ srv.pc = "generic" /\ c2s # <<>>
       /\ IsRequest(Head(c2s)) /\ Head(c2s).reqType = REQ_TYPE_DELETE
       /\ (c2s' = Tail(c2s) \/ srv'.pc = "idle"))
      => LET m == Head(c2s)
             p == Fqpath(m.relPath)
             k == m.relPath
         IN  /\ srv'.pc = "generic" /\ conn' = conn
             /\ IF Exists(fsB, p) /\ fsB[p].mtime < m.delTime
                THEN /\ \A q \in Paths : IsPrefix(p, q) => fsB'[q] = NoNode
                     /\ \A q \in Paths : ~IsPrefix(p, q) =>
                           /\ fsB'[q].kind = fsB[q].kind
                           /\ fsB'[q].data = fsB[q].data
                           /\ q # Parent(p) => fsB'[q] = fsB[q]
                     /\ DOMAIN delB' = DOMAIN delB \cup {k}
                     /\ delB'[k] = m.delTime
                     /\ \A q \in DOMAIN delB \ {k} : delB'[q] = delB[q]
                ELSE fsB' = fsB /\ delB' = delB
    ]_vars

\* The responder has just removed a path and recorded its tombstone.
C2_Witness ==
  /\ last = [who |-> "B", what |-> "deleted", path |-> <<"old.txt">>]
  /\ ~Exists(fsB, <<"old.txt">>)
  /\ <<"old.txt">> \in DOMAIN delB

\* C3. Atomicity of an aborted transfer.  When the connection has dropped after
\* the UPDATE_PING was taken and before the body was read completely, and the
\* handler returns on the failed read, the responder's tree at relPath is what
\* it was before the UPDATE_PING (same existence, content and mod time), also
\* when the target did not exist, and no temp file is left.
C3_AbortedTransferAtomic ==
  [][ (srv.pc \in {"upd_follow", "upd_body"} /\ conn.broken /\ srv'.pc = "idle")
      => /\ fsB'[srv.relPath] = srv.before
         /\ ~srv'.tempOn
    ]_vars

\* C4. Request serialization on one connection.  Whatever the tunnel writes
\* next after an UPDATE_PING is the UPDATE for the same relPath, and while the
\* responder waits for the follow-up of an exchange the tunnel is inside
\* handleEventUpdate for it, not back in its event loop.
C4_RequestSerialization ==
  /\ \A i \in 1..(Len(sent) - 1) :
        (sent[i].req.kind = "req" /\ sent[i].req.reqType = REQ_TYPE_UPDATE_PING)
        => /\ sent[i + 1].req.kind = "req"
           /\ sent[i + 1].req.reqType = REQ_TYPE_UPDATE
           /\ sent[i + 1].req.relPath = sent[i].req.relPath
  /\ (srv.pc = "upd_follow" /\ conn.who = "tunnel" /\ conn.cli)
        => (tun.pc \in {"upd_ping", "upd_resp"} /\ tun.relPath = srv.relPath)

\* C5. Tombstone table mutual exclusion.  No two threads are inside the table
\* at the same time when at least one of them writes it, and while a tunnel is
\* inside its bootstrap range over the table no other thread is inside an
\* insert or a removal.
C5_TableMutualExclusion ==
  /\ \A t \in TableThreads : \A u \in TableThreads \ {t} :
        ~(Accessing(t) /\ Accessing(u) /\ (Writing(t) \/ Writing(u)))
  /\ \A t \in Tunnels : thr[t].pc = "range" =>
        \A u \in TableThreads \ {t} : ~Writing(u)

\* C6. Handshake outcome.  A handler is past the handshake only after it read
\* "hello" and a 44-byte credential that is the salted hash of its own
\* password, and the tunnel is past it only when the passwords are equal.
\* With equal passwords neither side of a tunnel's connection fails the
\* handshake.  The handler answers "ok" to "hello" and to nothing else, and the
\* second "ok" to a matching 44-byte credential and to nothing else; when it
\* fails the handshake it closes the connection, writes nothing, drops what
\* the client sent unread and leaves the tree and the table alone; a tunnel
\* whose password differs leaves the handshake only by its error return.
C6_HandshakeOutcome ==
  /\ [](/\ (srv.pc \notin {"idle", "hello", "password"}) =>
              (/\ Len(srv.hs) = 2
               /\ srv.hs[1] = Plain("hello")
               /\ srv.hs[2].kind = "cred"
               /\ srv.hs[2].len = 44
               /\ srv.hs[2].hash = SHA256WithPredefinedSalt(pwB, srv.hs[2].hash.salt))
       /\ (tun.pc \notin {"start", "hello", "password"}) => pwA = pwB)
  /\ [][
          /\ (conn.who = "tunnel" /\ pwA = pwB /\ tun.pc \in {"hello", "password"})
               => tun'.pc \in {"hello", "password", "run"}
          /\ (conn.who = "tunnel" /\ pwA = pwB /\ srv.pc \in {"hello", "password"})
               => srv'.pc \in {"hello", "password", "generic"}
          /\ (conn.who = "tunnel" /\ pwA # pwB /\ tun.pc \in {"hello", "password"})
               => (tun'.pc \in {"hello", "password"} \/ (tun'.pc = "start" /\ ~conn'.cli))
          /\ (srv.pc = "hello" /\ srv' # srv)
               => IF Head(c2s) = Plain("hello")
                  THEN srv'.pc = "password" /\ s2c' = Append(s2c, Plain("ok"))
                  ELSE srv'.pc = "idle"
          /\ (srv.pc = "password" /\ srv' # srv)
               => IF /\ Head(c2s).kind = "cred"
                     /\ Head(c2s).len = 44
                     /\ Head(c2s).hash = SHA256WithPredefinedSalt(pwB, Head(c2s).hash.salt)
                  THEN srv'.pc = "generic" /\ s2c' = Append(s2c, Plain("ok"))
                  ELSE srv'.pc = "idle"
          /\ (srv.pc \in {"hello", "password"} /\ srv'.pc = "idle")
               => /\ ~conn'.srv
                  /\ s2c' = s2c
                  /\ c2s' = <<>>
                  /\ fsB' = fsB /\ delB' = delB
        ]_vars

\* A tunnel with another password: the responder has failed the handshake and
\* the tunnel's doHandshake has returned its error.
C6_Witness ==
  /\ pwA # pwB /\ conn.who = "tunnel"
  /\ last.what = "handshake failed"
  /\ ~conn.srv /\ ~conn.cli
  /\ tun.pc = "start" /\ conns > 0

\* C7. Bootstrap ordering.  On a connection the tunnel's writes come in the
\* order: directory creates, tombstone DELETEs, file UPDATE exchanges, live
\* events; the directory phase writes CREATE_DIR only, the tombstone phase
\* DELETE only, the file phase UPDATE_PING, UPDATE and bodies only.  The
\* directory phase ends with a CREATE_DIR written for every directory of the
\* tree; the tombstone phase ends with a DELETE written for every entry the
\* table then has; the live events start with an UPDATE_PING written for every
\* file of the tree that has no watcher event pending.
C7_BootstrapOrdering ==
  /\ [](LET Rank(st) == CASE st = "dirs" -> 1 [] st = "dels" -> 2
                           [] st = "files" -> 3 [] OTHER -> 4
         IN  /\ \A i \in 1..Len(sent) : \A j \in i..Len(sent) :
                   Rank(sent[i].stage) <= Rank(sent[j].stage)
             /\ \A i \in 1..Len(sent) :
                   /\ sent[i].stage = "dirs" =>
                        (sent[i].req.kind = "req" /\ sent[i].req.reqType = REQ_TYPE_CREATE_DIR)
                   /\ sent[i].stage = "dels" =>
                        (sent[i].req.kind = "req" /\ sent[i].req.reqType = REQ_TYPE_DELETE)
                   /\ sent[i].stage = "files" =>
                        (sent[i].req.kind = "req" =>
                           sent[i].req.reqType \in {REQ_TYPE_UPDATE_PING, REQ_TYPE_UPDATE}))
  /\ [][ LET Has(t, p, st) == \E i \in 1..Len(sent) :
                                 /\ sent[i].stage = st /\ sent[i].req.kind = "req"
                                 /\ sent[i].req.reqType = t /\ sent[i].req.relPath = p
              DirsDone == /\ tun.dirs = <<>>
                          /\ \A d \in Paths : IsDir(fsA, d) => Has(REQ_TYPE_CREATE_DIR, d, "dirs")
              DelsDone == \A k \in DOMAIN delA : Has(REQ_TYPE_DELETE, k, "dels")
              FilesDone == /\ tun.files = <<>>
                           /\ \A p \in Paths :
                                 (IsFile(fsA, p) /\ \A i \in 1..Len(events) : events[i].path # p)
                                 => Has(REQ_TYPE_UPDATE_PING, p, "files")
          IN  /\ (tun.stage = "dirs" /\ tun'.stage \in {"dels", "files", "live"})
                    => DirsDone
              /\ (tun.stage \in {"dirs", "dels"} /\ tun'.stage \in {"files", "live"})
                    => DelsDone
              /\ (tun.stage \in {"dirs", "dels", "files"} /\ tun'.stage = "live")
                    => FilesDone
        ]_vars

\* A bootstrap that has written a directory create, then a tombstone DELETE,
\* then the UPDATE of a file.
C7_Witness ==
  \E i, j, k \in 1..Len(sent) :
     /\ i < j /\ j < k
     /\ sent[i].stage = "dirs" /\ sent[j].stage = "dels" /\ sent[k].stage = "files"
     /\ sent[k].req.kind = "req" /\ sent[k].req.reqType = REQ_TYPE_UPDATE

C10_RenamePropagation ==
  (/\ conn.who = "tunnel" /\ tun.pc = "run" /\ events = <<>>
   /\ c2s = <<>> /\ srv.pc = "generic"
   /\ ~Exists(fsA, <<"old.txt">>) /\ IsFile(fsA, <<"new.txt">>)
   /\ \E i, j \in 1..Len(sent) :
        /\ i < j
        /\ sent[i].stage = "live" /\ sent[i].req.kind = "req"
        /\ sent[i].req.reqType = REQ_TYPE_DELETE
        /\ sent[i].req.relPath = <<"old.txt">>
        /\ sent[j].stage = "live" /\ sent[j].req.kind = "req"
        /\ sent[j].req.reqType = REQ_TYPE_CREATE_FILE
        /\ sent[j].req.relPath = <<"new.txt">>)
  => /\ ~Exists(fsB, <<"old.txt">>)
     /\ fsB[<<"new.txt">>].kind = "file"
     /\ fsB[<<"new.txt">>].data = fsA[<<"new.txt">>].data
     /\ fsB[<<"new.txt">>].mtime = fsA[<<"new.txt">>].mtime

\* C11. Responder path validation.  When the handler takes from the connection
\* a request whose relPath is empty, is ".", or differs from its own
\* normalization, it returns an error and closes the connection, and the tree
\* and the table are what they were.
C11_PathValidation ==
  [][ (/\ srv.pc = "generic" /\ c2s # <<>>
       /\ IsRequest(Head(c2s))
       /\ (\/ Head(c2s).relPath = <<>>
           \/ Head(c2s).relPath = <<".">>
           \/ Clean(Head(c2s).relPath) # Head(c2s).relPath)
       /\ (c2s' = Tail(c2s) \/ srv'.pc = "idle"))
      => (/\ srv'.pc = "idle" /\ ~conn'.srv
          /\ fsB' = fsB /\ delB' = delB)
    ]_vars

\* C12. Reconnect forever.  Tunnel.Start never ends: the process is never
\* ended from inside the loop, whatever the dial, the handshake, the bootstrap
\* or a watched event runs into; and the tunnel never holds more than one open
\* connection.
C12_ReconnectForever ==
  /\ loop.pc # "crashed"
  /\ loop.open <= 1

\* C13. First connection attempt is immediate.  The first dial of a call of
\* createConnections comes with no sleep before it.
C13_FirstDialImmediate ==
  (loop.pc = "dial" /\ loop.first) => loop.waited = 0

\* C14. Backoff persists across handshake failures.  With passwords that
\* differ, the sleep before the dial that follows a failed handshake is one
\* second longer than the sleep before the dial of the failed attempt, up to
\* 30 seconds (3 seconds when that attempt had none): 3, 4, 5, ...
C14_BackoffPersists ==
  (pwA # pwB /\ loop.pc = "dial" /\ loop.after = "handshake failed")
  => loop.waited = (IF loop.prev = 0 THEN 3
                    ELSE IF loop.prev + 1 > 30 THEN 30 ELSE loop.prev + 1)

\* C18. Startup failure exit.  Once net.Listen has failed and main has gone on
\* past server.Start(), nothing of the process is left running: it is not
\* parked on done with a tunnel at work.
C18_ListenFailureExits ==
  (main.listen = "failed" /\ main.pc = "blocked") => loop.pc = "off"

\* C15. One-way link.  No step of the tunnel changes the initiator's tree: the
\* tree changes only by a local operation (the user, or the daemon's own
\* inbound server), and such a step is none of the tunnel's.  What travels from
\* the responder to the initiator is the handshake's "ok" and responses, never
\* a request or a file body; requests and bodies are written by the tunnel only.
C15_OneWayLink ==
  /\ [](\A i \in 1..Len(s2c) : s2c[i].kind \in {"plain", "resp"})
  /\ [][ /\ (fsA' # fsA) => (ops' = ops + 1 /\ tun' = tun /\ sent' = sent /\ c2s' = c2s)
         /\ (conn.who = "tunnel" /\ Len(c2s') > Len(c2s) /\ tun.pc \notin {"start", "hello"})
               => sent' = Append(sent, [req |-> c2s'[Len(c2s')], stage |-> tun'.stage])
       ]_vars

\* The tunnel has pushed a file body to the responder, and its own tree is the
\* one it started with.
C15_Witness ==
  /\ ops = 0 /\ fsA \in InitTreesA
  /\ \E i \in 1..Len(sent) : sent[i].req.kind = "body"
  /\ fsB[<<"old.txt">>] = fsA[<<"old.txt">>]

\* C16. Corrupted file body.  When the handler has streamed a body into the
\* temp file and the MAC that trails it does not match, ReadEncryptedStream
\* fails with "hashes do not match": the handler returns, the temp file is
\* gone, the lock on the target is released, the connection is closed, and the
\* tree is what it was; a target that existed before the UPDATE_PING is still
\* what it was then.
C16_CorruptedBody ==
  [][ (/\ srv.pc = "upd_body" /\ conn.srv /\ ~conn.broken
       /\ c2s # <<>> /\ Head(c2s).kind = "body" /\ ~Head(c2s).macOK
       /\ srv' # srv)
      => (/\ srv'.pc = "idle"
          /\ last' = [who |-> "B", what |-> "hashes do not match", path |-> srv.relPath]
          /\ ~srv'.tempOn /\ ~srv'.locked
          /\ ~conn'.srv
          /\ fsB' = fsB
          /\ (srv.fexists => fsB'[srv.relPath] = srv.before))
    ]_vars

\* The handler has turned down a body with a bad MAC, and the responder's
\* older old.txt is still there with its bytes and its mod time.
C16_Witness ==
  /\ last = [who |-> "B", what |-> "hashes do not match", path |-> <<"old.txt">>]
  /\ srv.pc = "idle" /\ ~conn.srv
  /\ fsB[<<"old.txt">>].kind = "file"
  /\ fsB[<<"old.txt">>].data = <<1, 2>>
  /\ fsB[<<"old.txt">>].mtime < fsA[<<"old.txt">>].mtime

\* C19. Responder write lock span.  The handler holds the write lock on the
\* target exactly while it is inside handleUpdate past the open: a pingOK on
\* its way to the initiator was written with the lock held and the handler is
\* still waiting for the follow-up under it; the lock is held while the handler
\* waits for the follow-up and while it receives the body; and it is not held
\* once the handler is back in the request loop or has returned.
C19_WriteLockSpan ==
  /\ srv.locked <=> srv.pc \in {"upd_follow", "upd_body"}
  /\ \A i \in 1..Len(s2c) :
        (s2c[i].kind = "resp" /\ s2c[i].pingOK) => (srv.locked /\ srv.pc = "upd_follow")

\* The handler has left an UPDATE it held the lock for by an error return (a
\* failed read, or a follow-up it turned down), and the lock is released.
C19_Witness ==
  /\ last.who = "B" /\ last.what \in {"follow-up failed", "read error"}
  /\ last.path # <<>>
  /\ srv.pc = "idle" /\ ~srv.locked

\* C20. Send-side read lock.  The tunnel holds the read lock on the local file
\* exactly while handleEventUpdate is past its open: the UPDATE it writes
\* carries the mod time of the handle it has just locked; while it waits for
\* the response the handle and the lock stay, and a file that is the locked
\* one is not rewritten (it can only be unlinked); the body it writes is the
\* bytes of the locked handle, in their length; and on every way out of the
\* wait, the body written or an error returned, the lock is released.
C20_SendSideReadLock ==
  [][ LET p == tun.relPath
      IN  /\ tun.rlock <=> tun.pc = "upd_resp"
          /\ (tun.pc = "upd_ping" /\ tun'.pc = "upd_resp")
                => /\ tun'.rlock
                   /\ tun'.h = fsA[p] /\ tun'.h.kind # "none"
                   /\ sent' = Append(sent, [req |-> Req(REQ_TYPE_UPDATE, p, tun'.h.mtime, 0),
                                            stage |-> tun.stage])
          /\ (tun.pc = "upd_resp" /\ tun'.pc = "upd_resp")
                => /\ tun'.rlock /\ tun'.h = tun.h
                   /\ (fsA[p] = tun.h) => (fsA'[p] = tun.h \/ fsA'[p].kind = "none")
          /\ (tun.pc = "upd_resp" /\ sent' # sent)
                => /\ sent' = Append(sent, [req |-> Body(tun.h.data), stage |-> tun.stage])
                   /\ Len(sent'[Len(sent')].req.data) = Len(tun.h.data)
          /\ (tun.pc = "upd_resp" /\ tun'.pc # "upd_resp") => ~tun'.rlock
    ]_vars

\* The tunnel has written the body of old.txt from the locked handle and has
\* released the lock.
C20_Witness ==
  /\ tun.pc = "run" /\ ~tun.rlock
  /\ sent # <<>>
  /\ sent[Len(sent)].req.kind = "body"
  /\ sent[Len(sent)].req.data = fsA[<<"old.txt">>].data
  /\ sent[Len(sent) - 1].req.relPath = <<"old.txt">>

\* C17. Encrypted frame round-trip.  With the same keys at both ends, the
\* calls of ReadEncryptedFull made so far have returned, in order and without
\* an error, the messages written first with WriteEncryptedFull, each call
\* taking from the stream the bytes of one frame: 10 of length, 16 of IV, the
\* ciphertext in the length of the message, 32 of MAC; and when every frame
\* written has been read, no byte is left in the stream.
C17_FrameRoundTrip ==
  /\ Len(wire.got) <= Len(wire.wrote)
  /\ \A i \in 1..Len(wire.got) :
        /\ ~wire.got[i].err
        /\ wire.got[i].data = wire.wrote[i]
        /\ wire.got[i].n = 10 + 16 + Len(wire.wrote[i]) + 32
  /\ (Len(wire.got) = Len(wire.wrote) /\ wire.w.pc = "idle" /\ wire.r.pc = "length")
        => wire.bytes = <<>>

\* Two different messages, one of them of 130 bytes, have been written and
\* read back.
C17_Witness ==
  /\ Len(wire.got) = 2
  /\ wire.got[1].data # wire.got[2].data
  /\ \E i \in 1..2 : Len(wire.got[i].data) = 130
  /\ \E i \in 1..2 : wire.got[i].data = <<200>>

\* C21. Swap re-check under lock (responder without ping).  With a local
\* writer that honours the lock as the only other party: whenever a handler
\* truncates and overwrites a target it did not create itself, the mod time of
\* the target at that moment is strictly before the modTime of the request, so
\* a target that is not older than the incoming modTime is never overwritten.
C21_SwapRecheckUnderLock ==
  [][ \A c \in InboundConns :
        (/\ np.h[c].pc = "resolve" /\ ~np.h[c].created
         /\ \A d \in InboundConns \ {c} : np.h[d].pc = "off"
         /\ np'.h[c].pc = "generic" /\ np'.h[c].why = "updated")
        => fsB[np.h[c].relPath].mtime < np.h[c].modTime
    ]_vars

\* C22. Invalid local events are dropped.  When handleEvent returns from an
\* event whose name is not under the root, or whose relative path differs from
\* its normalization, or is empty or ".", it has written nothing on the
\* connection and it returns nil, so the watch loop goes on.
InvalidEvent(name) ==
  \/ ~IsPrefix(Root, name)
  \/ CleanParts(TrimPrefix(name, Root), <<>>) # TrimPrefix(name, Root)
  \/ TrimPrefix(name, Root) = <<>>
  \/ TrimPrefix(name, Root) = <<".">>

C22_InvalidEventsDropped ==
  (ev.pc = "return" /\ InvalidEvent(ev.name)) => (ev.sent = <<>> /\ ev.ret = "nil")

\* C23. Inbound isolation.  When a handler returns with an error (its
\* handshake failed, a read failed, a MAC did not match, a frame was no JSON,
\* the request type was unknown, a filesystem call failed), its own connection
\* is closed and the lock it held is free; the listener is as it was, still
\* accepting if it was, and every other handler is where it was, none of them
\* closed by it.
C23_InboundIsolation ==
  [][ \A c \in InboundConns :
        (np.h[c].pc \notin {"off", "closed"} /\ np'.h[c].pc = "closed")
        => /\ np'.ln = np.ln
           /\ \A d \in InboundConns \ {c} : np'.h[d] = np.h[d]
           /\ np'.lock # c
           /\ np'.writer = np.writer
    ]_vars

\* One connection was closed for an unknown request type while the handler
\* of the other is past its re-check, and the listener still accepts.
C23_Witness ==
  /\ np.ln = "listening"
  /\ np.h["c1"].pc = "closed" /\ np.h["c1"].why = "Unknown request type"
  /\ np.h["c2"].pc = "resolve"

\* The types of the frames a handler wrote, a body being "body".
SentTypes(sq) == [i \in 1..Len(sq) |-> IF sq[i].kind = "req" THEN sq[i].reqType ELSE "body"]

\* C24. Event translation.  When handleEvent returns from an event on a
\* canonical path under the root, every request it wrote names the relative
\* path of the event, and: with REMOVE or RENAME among the flags it wrote one
\* DELETE and nothing else, whatever the other flags (nothing when the write
\* failed); otherwise with CREATE it wrote CREATE_DIR and added the path to the
\* watcher when os.Stat found a directory, CREATE_FILE and no watch when it
\* found a file; otherwise with WRITE it ran the exchange UPDATE_PING, UPDATE,
\* body, as far as the responses led it; otherwise it wrote nothing and
\* returned nil.
C24_EventTranslation ==
  (ev.pc = "return" /\ ~InvalidEvent(ev.name)) =>
    LET types == SentTypes(ev.sent)
        done  == ev.ret = "nil"
    IN  /\ \A i \in 1..Len(ev.sent) :
             ev.sent[i].kind = "req" => ev.sent[i].relPath = TrimPrefix(ev.name, Root)
        /\ IF "REMOVE" \in ev.op \/ "RENAME" \in ev.op
           THEN /\ types = IF done THEN <<REQ_TYPE_DELETE>> ELSE <<>>
                /\ ev.added = {}
           ELSE IF "CREATE" \in ev.op
           THEN /\ (ev.stat = "dir") =>
                      (/\ types = IF done THEN <<REQ_TYPE_CREATE_DIR>> ELSE <<>>
                       /\ ev.added = {ev.name})
                /\ (ev.stat = "file") =>
                      (/\ types = IF done THEN <<REQ_TYPE_CREATE_FILE>> ELSE <<>>
                       /\ ev.added = {})
                /\ (ev.stat \notin {"dir", "file"}) => (types = <<>> /\ ev.added = {})
           ELSE IF "WRITE" \in ev.op
           THEN /\ types \in { <<>>, <<REQ_TYPE_UPDATE_PING>>,
                               <<REQ_TYPE_UPDATE_PING, REQ_TYPE_UPDATE>>,
                               <<REQ_TYPE_UPDATE_PING, REQ_TYPE_UPDATE, "body">> }
                /\ done => types # <<>>
                /\ ev.added = {}
           ELSE types = <<>> /\ ev.added = {} /\ done

\* An event that carries RENAME, CREATE and WRITE together has been sent as
\* one DELETE, its delete time remembered in the table.
C24_Witness ==
  /\ ev.pc = "return" /\ ev.ret = "nil"
  /\ ev.name = <<"root", "old.txt">>
  /\ ev.op = {"RENAME", "CREATE", "WRITE"}
  /\ SentTypes(ev.sent) = <<REQ_TYPE_DELETE>>
  /\ <<"old.txt">> \in DOMAIN delA

\* C25. No crash on per-connection errors.  Whatever os.Stat, os.OpenFile and
\* the reads and writes on the connection return while an event is handled,
\* handleEvent returns nil or an error; it never panics, and the process is
\* never ended by it.
C25_NoCrash == ev.ret # "panic" /\ ev.pc # "crashed"

\* C27. No request-type confusion on the responder.  On a connection of the
\* tunnel, the frame the handler takes as the follow-up of an UPDATE_PING is
\* a request the tunnel wrote with type UPDATE, and the frame whose bytes it
\* reads as the file body is a body.
C27_NoTypeConfusion ==
  [][ (conn.who = "tunnel" /\ c2s # <<>>) =>
        /\ (srv.pc = "upd_follow" /\ srv'.pc \in {"generic", "upd_body"})
              => (IsRequest(Head(c2s)) /\ Head(c2s).reqType = REQ_TYPE_UPDATE)
        /\ (srv.pc = "upd_body" /\ srv' # srv /\ srv'.pc \in {"generic", "upd_body"})
              => Head(c2s).kind = "body"
    ]_vars

\* The request types Tunnel.handleEvent writes at the top level.
TunnelEmits ==
  {REQ_TYPE_CREATE_FILE, REQ_TYPE_CREATE_DIR, REQ_TYPE_UPDATE_PING, REQ_TYPE_DELETE}

\* C29. Variant agreement inside src/cmd.  No request type the tunnel of
\* src/cmd/tunnel.go writes at the top level is turned down by the request
\* loop of src/cmd/server.go as an unknown request type.
C29_VariantAgreement == \A c \in InboundConns : np.h[c].bad \notin TunnelEmits

\* C26. Deadlock freedom with mutual peers.  There is no state in which the
\* tunnel of each daemon waits for the read lock on its own copy, held as a
\* write lock by the inbound handler of the same daemon, while that handler
\* waits for the follow-up of the other daemon's tunnel and nothing is in
\* flight to it.
C26_NoLockCycle ==
  ~(\A d \in Daemons :
       /\ mu.tun[d].pc = "rlock"
       /\ mu.lock[d] = "W"
       /\ mu.hnd[d].pc = "follow"
       /\ mu.req[Peer(d)] = <<>>)

\* C28. No echo loop.  Daemon A begins to push old.txt (by the bootstrap of its
\* tunnel or after a local write) while everything else is at rest.  From then
\* on A's copy does not change, no more file bodies are received than the push
\* calls for (one after a local write), the two daemons come to rest, and at
\* rest the count is exactly that number and the two copies have equal
\* content and mod time.
APushes == mu.pushed = "A" /\ mu.clean

====
